---------------------------- MODULE Spec2Model ----------------------------
(***************************************************************************)
(* Model of the data compression operators of the embedding data           *)
(* distributor (HugeCTR/embedding/data_distributor/                        *)
(* data_compression_operators.cu): the partition-and-unique passes over a  *)
(* device-resident open-addressing hash table, the compaction of the       *)
(* partition slabs and the remap of the reverse index.                     *)
(***************************************************************************)
EXTENDS Integers, Sequences, FiniteSets, TLC

(***************************************************************************)
(* Bounds of the model.                                                    *)
(***************************************************************************)
\* largest number of key occurrences handed to one by-table-id pass
MaxNumKeys == 3
\* key values
Keys == {0, 1}
\* lookup (feature) ids of the embedding collection
Lookups == {0, 1}
\* embedding tables the lookups may refer to
Tables == {0, 1}
\* <<table_capacity_, max_num_key_per_partition>> an operator and its
\* PartitionedData are built with: too small a table, too small a slab, and
\* both large enough for MaxNumKeys distinct keys
Sizings == {<<MaxNumKeys - 1, MaxNumKeys - 1>>, <<MaxNumKeys, MaxNumKeys - 1>>,
            <<MaxNumKeys, MaxNumKeys>>}

\* Width in bits of the unsigned word that stands for uint32_t (the type of
\* r_idx_plus_one): the model checker's integers are 32-bit signed, so 2^32 itself
\* cannot be written and a narrower word with the same wrap-around is used.
WordBits == 16
\* the data-parallel input has at most MaxSample samples per GPU and at most
\* MaxHot keys in a bucket
MaxSample == 2
MaxHot == 2
\* threads per block of the data-parallel kernel
BlockSize == 256
\* a seeding kernel gets at most MaxSeedKeys frequent keys of one table
MaxSeedKeys == 2
\* the universal batch size is at most MaxBatch
MaxBatch == 4
\* the reverse index given to the selection has at most MaxSelItems entries,
\* and the selection works on tiles of TileSize entries
MaxSelItems == 4
TileSize == 2
\* a partition kernel on the device is followed through InsertsPerKernel
\* insertions into the hash table
InsertsPerKernel == 2
TwoToWordBits == 2 ^ WordBits

VARIABLES
  phase,                       \* position of the host in the step
  keys, feature_ids,           \* keys_gpu_major, feature_ids_gpu_major
  lookup_id_to_local_table_id, \* TablePartitioner
  num_partition,
  table, table_capacity,       \* hash_table_storage_, table_capacity_
  d_num_key_per_partition,     \* PartitionedData
  partitioned_keys, pd_feature_ids,
  max_num_key_per_partition,
  reverse_idx,                 \* CompressedData::reverse_idx
  work,                        \* per device thread: the occurrence it handles
  threads,                     \* per device thread: its position inside find()
  writes,                      \* history: number of stores to each reverse_idx entry
  num_key_per_table,           \* CompactedPartitionData
  compacted_keys, h_num_keys,
  sparse_reverse_idx,          \* history: reverse_idx before the remap
  dp_keys, bucket_range,       \* DataDistributionInput: per lookup, the keys
                               \* and the bucket range of this GPU's samples
  lookup_ids,                  \* d_lookup_ids_
  num_sample_per_lookup,       \* batch_size_per_gpu_
  range_on_lookup_ids,
  seed_table_ids, seed_keys,   \* DenseFrequentKeysData: table_ids, h_frequent_keys
  seed_i,                      \* the number of seeding kernels launched
  returned,                    \* history: <<pair, value find() returned>> of
                               \* the seeding kernels that have ended
  at_launch,                   \* history: hash table and partitioned data
                               \* as the running seeding kernel found them
  ebc_param, gpu_count,        \* EmbeddingCollectionParam, global GPU count
  op,                          \* the PartitionAndUniqueOperator's members
  presented,                   \* the number of key occurrences given to a pass
  sel,                         \* SelectValidReverseIdxOperator: the array it
                               \* selects in, the tiles of the selection
  dev,                         \* the device: the work in its streams, what ran
  freq,                        \* frequent_key_hash_table_storage_ and the
                               \* table a later pass consults
  fill,                        \* fill_continuous_bucket_ids: its outputs
  shard,                       \* ShardPartitioner: its inputs and what it built
  hybrid,                      \* hybrid embedding: CalibrationData, Statistics
                               \* and Model
  reader,                      \* DataReaderWorkerGroup and its worker threads
  profiler,                    \* Profiler: mtx_ and the threads in record_event
  ops                          \* the Operation objects and the name registry

\* the inputs of a step and the sizes the buffers were built with
inputVars == <<keys, feature_ids, lookup_id_to_local_table_id>>
cfgVars == <<num_partition, table_capacity, max_num_key_per_partition>>
compVars == <<num_key_per_table, compacted_keys, h_num_keys, sparse_reverse_idx>>
dpVars == <<dp_keys, bucket_range, lookup_ids, num_sample_per_lookup>>
seedVars == <<seed_table_ids, seed_keys, seed_i, returned, at_launch>>
capVars == <<ebc_param, gpu_count, op, presented>>
hostVars == <<reader, profiler, ops>>
extVars == <<sel, dev, freq, fill, shard, hybrid, hostVars>>

\* what the device threads inside find() leave alone
staticVars == <<inputVars, cfgVars, compVars, dpVars, range_on_lookup_ids, seedVars,
               capVars, extVars>>

vars == <<phase, inputVars, cfgVars, table, d_num_key_per_partition,
          partitioned_keys, pd_feature_ids, reverse_idx, work, threads, writes,
          compVars, dpVars, range_on_lookup_ids, seedVars, capVars, extVars>>

\* the state of the partition, compaction and sizing operators
coreVars == <<phase, inputVars, cfgVars, table, d_num_key_per_partition,
              partitioned_keys, pd_feature_ids, reverse_idx, work, threads, writes,
              compVars, dpVars, range_on_lookup_ids, seedVars, capVars>>

(***************************************************************************)
(* Helpers.                                                                *)
(***************************************************************************)
Range(f) == {f[x] : x \in DOMAIN f}

RECURSIVE SumTo(_, _)
\* c[0] + ... + c[n-1]
SumTo(c, n) == IF n = 0 THEN 0 ELSE SumTo(c, n - 1) + c[n - 1]

\* the position of value v in the ascending enumeration of the set S
RankIn(S, v) == Cardinality({x \in S : x < v})

(***************************************************************************)
(* TablePartitioner.                                                       *)
(***************************************************************************)
\* h_lookup_id_to_local_table_id: -1 for a lookup that is not local, else the
\* position of the lookup's table among the sorted unique table ids
TablePartitioner(local_lookups, table_ids) ==
  [l \in Lookups |->
     IF l \in local_lookups
       THEN RankIn({table_ids[x] : x \in local_lookups}, table_ids[l])
       ELSE -1]

\* TablePartitionerView::operator()
TablePartitionerView(map, key, feature_id) ==
  IF feature_id \in DOMAIN map THEN map[feature_id] ELSE -1

\* DummyPartitionerView::operator()
DummyPartitionerView(key, feature_id) == 0

(***************************************************************************)
(* The hash table: TableEntry, Hash, UniqueTableView::find.                *)
(***************************************************************************)
\* an entry after cudaMemset(0)
EmptyEntry == [marker |-> 0, key |-> 0, feature_id |-> 0, r_idx_plus_one |-> 0]

\* an entry left by an earlier use of the storage
StaleEntry == [marker |-> 1, key |-> 0, feature_id |-> 0, r_idx_plus_one |-> 1]

Hash(key, feature_id) == key + 2 * feature_id

\* cudaMemsetAsync(hash_table_storage_.data(), 0, num_bytes)
MemsetHashTable(capacity) == [pos \in 0 .. (capacity - 1) |-> EmptyEntry]

\* mutant: the memset covers the first count only, the others keep a stale 1
MemsetNumKeyFirstOnly(np) == [p \in 0 .. (np - 1) |-> IF p = 0 THEN 0 ELSE 1]

\* cudaMemsetAsync(d_num_key_per_partition.data(), 0, num_bytes)
MemsetNumKey(np) == [p \in 0 .. (np - 1) |-> 0]

\* mutant: the 1-based value is stored as it is
ReverseIdxOfNoSub(r_idx_plus_one) == r_idx_plus_one % TwoToWordBits

\* compressed_data.reverse_idx[i] = r_idx_plus_one - 1, in 32-bit unsigned
ReverseIdxOf(r_idx_plus_one) == (r_idx_plus_one - 1) % TwoToWordBits

\* the value stored for "not needed here": 0 - 1 in 32-bit unsigned
kInvalidReverseIdx == ReverseIdxOf(0)

\* mutant: the feature id of the occurrence is not handed to find()
ByTableIdWorkKeyOnly(ks, fs, num_keys) ==
  [i \in 1 .. num_keys |-> [key |-> ks[i], feature_id |-> 0, out |-> i - 1]]

\* partition_and_unique_kernel over (keys, feature_ids, num_keys): the
\* occurrence each index i hands to find(), and where its result is stored
ByTableIdWork(ks, fs, num_keys) ==
  [i \in 1 .. num_keys |-> [key |-> ks[i], feature_id |-> fs[i], out |-> i - 1]]

\* the kernel's store of one result: reverse_idx[out] = r_idx_plus_one - 1
\* (out = -1: a kernel that drops the result)
StoreReverseIdx(ri, w, r_idx_plus_one) ==
  IF w.out \in DOMAIN ri THEN [ri EXCEPT ![w.out] = ReverseIdxOf(r_idx_plus_one)] ELSE ri

CountStore(wr, w) == IF w.out \in DOMAIN wr THEN [wr EXCEPT ![w.out] = @ + 1] ELSE wr

\* mutant: the slab of one partition only
SlabLengthOnePartition(np, max_per_partition) == max_per_partition

\* PartitionedData::PartitionedData: the length of partitioned_keys and of
\* feature_ids
SlabLength(np, max_per_partition) == max_per_partition * np

\* a device thread entering find(): partition id, first probe position
EnterFind(w, part, capacity, np) ==
  IF part < 0 \/ part >= np
    THEN [pc |-> "oob", part |-> part, pos |-> 0, probes |-> 0, slot |-> 0,
          ret |-> 0, won |-> FALSE]
    ELSE [pc |-> "cas", part |-> part, pos |-> Hash(w.key, w.feature_id) % capacity,
          probes |-> 0, slot |-> 0, ret |-> 0, won |-> FALSE]

Running == phase = "partition"

ThreadIds == DOMAIN threads

(***************************************************************************)
(* Steps of find() by device thread t.                                     *)
(***************************************************************************)
\* atomicCAS on the first-seen marker of the probed entry
Cas(t) ==
  /\ Running
  /\ threads[t].pc = "cas"
  /\ LET pos == threads[t].pos IN
       IF table[pos].marker = 0
         THEN /\ table' = [table EXCEPT ![pos].marker = 1]
              /\ threads' = [threads EXCEPT ![t].pc = "add", ![t].won = TRUE]
         ELSE /\ table' = table
              /\ threads' = [threads EXCEPT ![t].pc = "read"]
  /\ UNCHANGED <<phase, staticVars, d_num_key_per_partition, partitioned_keys,
                 pd_feature_ids, reverse_idx, work, writes>>

\* the winner takes the next slot of its partition (atomic_add on the running
\* count); a slab that is already full is a fatal error
AtomicAdd(t) ==
  /\ Running
  /\ threads[t].pc = "add"
  /\ LET p == threads[t].part
         idx == d_num_key_per_partition[p] IN
       /\ d_num_key_per_partition' = [d_num_key_per_partition EXCEPT ![p] = idx + 1]
       /\ IF idx >= max_num_key_per_partition
            THEN /\ threads' = [threads EXCEPT ![t].pc = "fatal"]
                 /\ phase' = "fatal"
            ELSE /\ threads' = [threads EXCEPT
                                  ![t].pc = "write",
                                  ![t].slot = p * max_num_key_per_partition + idx]
                 /\ phase' = phase
  /\ UNCHANGED <<staticVars, table, partitioned_keys, pd_feature_ids, reverse_idx,
                 work, writes>>

\* the winner stores the pair in its slab slot and in the table entry
WriteKey(t) ==
  /\ Running
  /\ threads[t].pc = "write"
  /\ LET s == threads[t].slot
         pos == threads[t].pos IN
       /\ partitioned_keys' = [partitioned_keys EXCEPT ![s] = work[t].key]
       /\ pd_feature_ids' = [pd_feature_ids EXCEPT ![s] = work[t].feature_id]
       /\ table' = [table EXCEPT ![pos].key = work[t].key,
                                 ![pos].feature_id = work[t].feature_id]
  /\ threads' = [threads EXCEPT ![t].pc = "publish"]
  /\ UNCHANGED <<phase, staticVars, d_num_key_per_partition, reverse_idx, work, writes>>

\* what the winner publishes in the entry after the fence: the 1-based slot
PublishedValue(slot) == slot + 1

\* fence, then the winner publishes the 1-based slot; find() returns it and the
\* kernel stores the reverse index of the occurrence
Publish(t) ==
  /\ Running
  /\ threads[t].pc = "publish"
  /\ LET r == PublishedValue(threads[t].slot) IN
       /\ table' = [table EXCEPT ![threads[t].pos].r_idx_plus_one = r]
       /\ threads' = [threads EXCEPT ![t].pc = "done", ![t].ret = r]
       /\ reverse_idx' = StoreReverseIdx(reverse_idx, work[t], r)
       /\ writes' = CountStore(writes, work[t])
  /\ UNCHANGED <<phase, staticVars, d_num_key_per_partition, partitioned_keys,
                 pd_feature_ids, work>>

\* a loser waits for the published slot, then compares the stored pair: the
\* same pair returns the winner's slot, another pair probes the next entry;
\* a table with no entry left for the pair is a fatal error
ReadBack(t) ==
  /\ Running
  /\ threads[t].pc = "read"
  /\ LET e == table[threads[t].pos] IN
       /\ e.r_idx_plus_one # 0
       /\ IF e.key = work[t].key /\ e.feature_id = work[t].feature_id
            THEN /\ threads' = [threads EXCEPT ![t].pc = "done",
                                               ![t].ret = e.r_idx_plus_one]
                 /\ reverse_idx' = StoreReverseIdx(reverse_idx, work[t], e.r_idx_plus_one)
                 /\ writes' = CountStore(writes, work[t])
                 /\ phase' = phase
            ELSE IF threads[t].probes + 1 >= table_capacity
              THEN /\ threads' = [threads EXCEPT ![t].pc = "fatal"]
                   /\ phase' = "fatal"
                   /\ UNCHANGED <<reverse_idx, writes>>
              ELSE /\ threads' = [threads EXCEPT
                                    ![t].pc = "cas",
                                    ![t].pos = (threads[t].pos + 1) % table_capacity,
                                    ![t].probes = threads[t].probes + 1]
                   /\ UNCHANGED <<phase, reverse_idx, writes>>
  /\ UNCHANGED <<staticVars, table, d_num_key_per_partition, partitioned_keys,
                 pd_feature_ids, work>>

(***************************************************************************)
(* PartitionAndUniqueOperator::partition_and_unique_by_table_id: the two   *)
(* memsets and the kernel launch, in stream order.                         *)
(***************************************************************************)
PartitionAndUniqueByTableId ==
  /\ phase = "start"
  /\ table' = MemsetHashTable(table_capacity)
  /\ d_num_key_per_partition' = MemsetNumKey(num_partition)
  /\ work' = ByTableIdWork(keys, feature_ids, Len(keys))
  /\ threads' = [t \in 1 .. Len(keys) |->
                   EnterFind(work'[t],
                             TablePartitionerView(lookup_id_to_local_table_id,
                                                  work'[t].key, work'[t].feature_id),
                             table_capacity, num_partition)]
  /\ phase' = "partition"
  /\ UNCHANGED <<staticVars, partitioned_keys, pd_feature_ids, reverse_idx, writes>>

\* the kernel has ended: every device thread has left find()
KernelDone ==
  /\ phase = "partition"
  /\ \A t \in ThreadIds : threads[t].pc = "done"
  /\ phase' = "partitioned"
  /\ UNCHANGED <<staticVars, table, d_num_key_per_partition, partitioned_keys,
                 pd_feature_ids, reverse_idx, work, threads, writes>>

(***************************************************************************)
(* CompactPartitionDataOperator and CompressReverseIdxRangeOperator.       *)
(***************************************************************************)
RECURSIVE BsLoop(_, _, _, _)
BsLoop(arr, lo, hi, target) ==
  IF lo >= hi THEN lo
  ELSE LET mid == lo + (hi - lo) \div 2 IN
         IF arr[mid] <= target THEN BsLoop(arr, mid + 1, hi, target)
                               ELSE BsLoop(arr, lo, mid, target)

\* bs_upper_bound_sub_one: binary search in arr[0 .. num-1] for the last index
\* whose value is <= target
bs_upper_bound_sub_one(arr, num, target) == BsLoop(arr, 0, num, target) - 1

\* cudaMemsetAsync of the first element, then cub::DeviceScan::InclusiveSum of
\* the np counts into num_key_per_table + 1
ScanNumKey(counts, np) == [i \in 0 .. np |-> SumTo(counts, i)]

\* mutant: the offset of the partition is not subtracted
CompactSourceNoOffset(compacted_range, num_range, max_key_per_partition, i) ==
  bs_upper_bound_sub_one(compacted_range, num_range, i) * max_key_per_partition + i

\* compact_keys_kernel, thread i: the slab slot gathered into compacted_keys[i]
CompactSource(compacted_range, num_range, max_key_per_partition, i) ==
  LET partition_id == bs_upper_bound_sub_one(compacted_range, num_range, i)
      offset_in_current_partition == i - compacted_range[partition_id]
  IN partition_id * max_key_per_partition + offset_in_current_partition

\* CompactPartitionDataOperator::operator(): scan, synchronize, gather,
\* synchronize
CompactPartitionData ==
  /\ phase = "partitioned"
  /\ num_key_per_table' = ScanNumKey(d_num_key_per_partition, num_partition)
  /\ LET num_keys == num_key_per_table'[num_partition] IN
       /\ compacted_keys' =
            [i \in DOMAIN compacted_keys |->
               IF i < num_keys
                 THEN partitioned_keys[CompactSource(num_key_per_table', num_partition,
                                                     max_num_key_per_partition, i)]
                 ELSE compacted_keys[i]]
       /\ h_num_keys' = num_keys
  /\ phase' = "compacted"
  /\ UNCHANGED <<extVars, inputVars, cfgVars, dpVars, range_on_lookup_ids, seedVars, capVars,
                 sparse_reverse_idx,
                 table, d_num_key_per_partition, partitioned_keys, pd_feature_ids,
                 reverse_idx, work, threads, writes>>

\* mutant: the offset of the partition is not added
CompressOneNoOffset(r_idx, counts, max_per_partition) ==
  r_idx - max_per_partition * (r_idx \div max_per_partition)

\* compress_reverse_idx_range_kernel, one entry: the slot of the sparse slab
\* rewritten to its place in the dense layout
CompressOne(r_idx, counts, max_per_partition) ==
  LET partition_id == r_idx \div max_per_partition
  IN r_idx - max_per_partition * partition_id + SumTo(counts, partition_id)

\* CompressReverseIdxRangeOperator::operator() over the first num_bucket_ids
\* entries; an entry whose partition id is not below num_partition reads the
\* offset table out of bounds and gets an undefined value
CompressReverseIdxRange ==
  /\ phase = "compacted"
  /\ sparse_reverse_idx' = reverse_idx
  /\ \E undefined \in Keys :
       reverse_idx' =
         [i \in DOMAIN reverse_idx |->
            IF i < Len(keys)
              THEN IF reverse_idx[i] \div max_num_key_per_partition < num_partition
                     THEN CompressOne(reverse_idx[i], d_num_key_per_partition,
                                      max_num_key_per_partition)
                     ELSE undefined
              ELSE reverse_idx[i]]
  /\ phase' = "compressed"
  /\ UNCHANGED <<extVars, inputVars, cfgVars, dpVars, range_on_lookup_ids, seedVars, capVars,
                 num_key_per_table,
                 compacted_keys, h_num_keys, table, d_num_key_per_partition,
                 partitioned_keys, pd_feature_ids, work, threads, writes>>

(***************************************************************************)
(* The model-parallel step: partition by table id, compact, remap.         *)
(***************************************************************************)
\* a set of pairs of naturals as the sequence ordered by (first, second)
SortedSeq(S) ==
  [n \in 1 .. Cardinality(S) |->
     CHOOSE x \in S :
       Cardinality({y \in S : (y[1] < x[1]) \/ (y[1] = x[1] /\ y[2] < x[2])}) = n - 1]

\* no data-parallel input is given to the step
NoDpInput ==
  /\ dp_keys = <<>>
  /\ bucket_range = <<>>
  /\ lookup_ids = <<>>
  /\ num_sample_per_lookup = 0
  /\ range_on_lookup_ids = <<>>

\* no frequent keys are given, and no seeding kernel has run
NoFrequentKeys ==
  /\ seed_table_ids = <<>>
  /\ seed_keys = <<>>
  /\ seed_i = 0
  /\ returned = {}
  /\ at_launch = <<>>

\* the sizing of the operator is left out: the step is given its capacities
NoSizing ==
  /\ ebc_param = <<>>
  /\ gpu_count = 0
  /\ op = <<>>
  /\ presented = 0

\* the parts of the state named in S take no part in the behaviour
Unused(S) ==
  /\ "sel" \in S => sel = <<>>
  /\ "dev" \in S => dev = <<>>
  /\ "freq" \in S => freq = <<>>
  /\ "fill" \in S => fill = <<>>
  /\ "shard" \in S => shard = <<>>
  /\ "hybrid" \in S => hybrid = <<>>
  /\ "reader" \in S => reader = <<>>
  /\ "profiler" \in S => profiler = <<>>
  /\ "ops" \in S => ops = <<>>

\* what device memory may hold where nothing was stored yet
Garbage == {0, 1}

Init ==
  /\ phase = "start"
  /\ \E n \in 0 .. MaxNumKeys :
       /\ keys \in [1 .. n -> Keys]
       /\ feature_ids \in [1 .. n -> Lookups]
  /\ \E table_ids \in [Lookups -> Tables] :
       /\ lookup_id_to_local_table_id = TablePartitioner(Lookups, table_ids)
       /\ num_partition = Cardinality(Range(table_ids))
  /\ \E sz \in Sizings :
       /\ table_capacity = sz[1]
       /\ max_num_key_per_partition = sz[2]
  /\ \E g \in Garbage :
       /\ table = [pos \in 0 .. (table_capacity - 1) |->
                     IF g = 0 THEN EmptyEntry ELSE StaleEntry]
       /\ d_num_key_per_partition = [p \in 0 .. (num_partition - 1) |-> g]
  /\ partitioned_keys =
       [s \in 0 .. (SlabLength(num_partition, max_num_key_per_partition) - 1) |-> 0]
  /\ pd_feature_ids =
       [s \in 0 .. (SlabLength(num_partition, max_num_key_per_partition) - 1) |-> 0]
  /\ reverse_idx = [i \in 0 .. (MaxNumKeys - 1) |-> 0]
  /\ work = <<>>
  /\ threads = <<>>
  /\ writes = [i \in 0 .. (MaxNumKeys - 1) |-> 0]
  /\ num_key_per_table = [i \in 0 .. num_partition |-> 0]
  /\ compacted_keys =
       [s \in 0 .. (SlabLength(num_partition, max_num_key_per_partition) - 1) |-> 0]
  /\ h_num_keys = 0
  /\ sparse_reverse_idx = reverse_idx
  /\ NoDpInput
  /\ NoFrequentKeys
  /\ NoSizing
  /\ Unused({"reader", "profiler", "ops", "sel", "dev", "freq", "fill", "shard", "hybrid"})

(***************************************************************************)
(* The data-parallel pass: partition_and_unique_on_dp_input (Dense).       *)
(***************************************************************************)
\* cal_range_on_selected_lookup_ids_kernel
CalRangeOnSelectedLookupIds(br, lids, num_local_lookup, nspl) ==
  LET RECURSIVE range(_)
      range(i) == IF i = 0 THEN 0
                  ELSE (range(i - 1) + br[lids[i]][nspl]) % TwoToWordBits
  IN  [i \in 1 .. num_local_lookup |-> range(i - 1)]

\* the value thread i stores in smem_bucket_range[threadIdx.x]
collective_load_bucket_range(i, br, lids, nspl) == br[lids[(i \div nspl) + 1]][i % nspl]

\* the first bucket of the block-sized chunk bucket i belongs to
BucketStartInThisBlock(i) == i - (i % BlockSize)

NumBucketInThisBlock(i, n) ==
  IF BlockSize < n - BucketStartInThisBlock(i) THEN BlockSize
  ELSE n - BucketStartInThisBlock(i)

\* shared memory as the threads of bucket i's chunk have loaded it
SmemBucketRange(i, br, lids, n, nspl) ==
  [j \in 0 .. (NumBucketInThisBlock(i, n) - 1) |->
     collective_load_bucket_range(BucketStartInThisBlock(i) + j, br, lids, nspl)]

\* the trip count of the inner loop, end - start in unsigned arithmetic
DpSpan(i, br, lids, n, nspl) ==
  LET smem == SmemBucketRange(i, br, lids, n, nspl)
  IN  (smem[NumBucketInThisBlock(i, n) - 1] - smem[0]) % TwoToWordBits

\* the iterations <<i, l>> of the inner loop that some thread executes: the
\* thread of bucket i runs l = threadIdx.x, threadIdx.x + blockDim.x, ...
DpIterations(br, lids, n, nspl) ==
  UNION {{<<i, l>> : l \in {x \in 0 .. (DpSpan(i, br, lids, n, nspl) - 1) :
                                  x % BlockSize = i % BlockSize}} :
         i \in 0 .. (n - 1)}

\* one iteration of the inner loop of the data-parallel kernel up to the
\* call of find(): where the key is read, the feature id, where the result
\* goes.  src is beyond the keys of the lookup when the read is out of bounds.
DpWorkItem(it, br, lids, range, n, nspl) ==
  LET i == it[1]
      l == it[2]
      smem == SmemBucketRange(i, br, lids, n, nspl)
      idx == bs_upper_bound_sub_one(smem, NumBucketInThisBlock(i, n), l)
      lookup_id == (BucketStartInThisBlock(i) + idx) \div nspl
      range_start == range[(i \div nspl) + 1]
      local_bucket_id == l + smem[0]
  IN  [feature_id |-> lookup_id, src |-> local_bucket_id,
       out |-> local_bucket_id + range_start]

DpCapacity == MaxSample * MaxHot * Cardinality(Lookups)

PartitionAndUniqueOnDpInput ==
  /\ phase = "start"
  /\ range_on_lookup_ids' =
       CalRangeOnSelectedLookupIds(bucket_range, lookup_ids, Len(lookup_ids),
                                   num_sample_per_lookup)
  /\ table' = MemsetHashTable(table_capacity)
  /\ d_num_key_per_partition' = MemsetNumKey(num_partition)
  /\ LET n == Len(lookup_ids) * num_sample_per_lookup
         its == SortedSeq(DpIterations(bucket_range, lookup_ids, n,
                                       num_sample_per_lookup))
         item(t) == DpWorkItem(its[t], bucket_range, lookup_ids,
                               range_on_lookup_ids', n, num_sample_per_lookup)
     IN  \E undefined \in Keys :
           work' = [t \in DOMAIN its |->
                      [key |-> IF /\ item(t).feature_id \in DOMAIN dp_keys
                                  /\ (item(t).src + 1) \in
                                       DOMAIN dp_keys[item(t).feature_id]
                               THEN dp_keys[item(t).feature_id][item(t).src + 1]
                               ELSE undefined,
                       feature_id |-> item(t).feature_id,
                       out |-> item(t).out]]
  /\ threads' = [t \in DOMAIN work' |->
                   EnterFind(work'[t],
                             TablePartitionerView(lookup_id_to_local_table_id,
                                                  work'[t].key, work'[t].feature_id),
                             table_capacity, num_partition)]
  /\ phase' = "partition"
  /\ UNCHANGED <<extVars, inputVars, cfgVars, compVars, dpVars, seedVars, capVars,
                 partitioned_keys, pd_feature_ids, reverse_idx, writes>>

\* the bucket range of a lookup: the offsets of its buckets and the total
BucketRangeOf(hot) ==
  [s \in 0 .. Len(hot) |-> SumTo([j \in 0 .. (Len(hot) - 1) |-> hot[j + 1]], s)]

InitDp ==
  /\ phase = "start"
  /\ keys = <<>>
  /\ feature_ids = <<>>
  /\ num_sample_per_lookup \in 1 .. MaxSample
  /\ lookup_ids \in {<<0>>, <<1>>, <<0, 1>>}
  /\ \E hot \in [Lookups -> [1 .. num_sample_per_lookup -> 0 .. MaxHot]] :
       bucket_range = [u \in Lookups |-> BucketRangeOf(hot[u])]
  /\ \E first \in [Lookups -> Keys], step \in [Lookups -> {0, 1}] :
       dp_keys = [u \in Lookups |->
                    [j \in 1 .. bucket_range[u][num_sample_per_lookup] |->
                       (first[u] + step[u] * (j - 1)) % Cardinality(Keys)]]
  /\ range_on_lookup_ids = [k \in 1 .. Len(lookup_ids) |-> 0]
  /\ lookup_id_to_local_table_id =
       TablePartitioner(Range(lookup_ids), [u \in Lookups |-> u])
  /\ num_partition = Len(lookup_ids)
  /\ table_capacity = DpCapacity
  /\ max_num_key_per_partition = DpCapacity
  /\ \E g \in Garbage :
       /\ table = [pos \in 0 .. (table_capacity - 1) |->
                     IF g = 0 THEN EmptyEntry ELSE StaleEntry]
       /\ d_num_key_per_partition = [p \in 0 .. (num_partition - 1) |-> g]
       /\ reverse_idx = [i \in 0 .. (DpCapacity - 1) |->
                           IF g = 0 THEN 0 ELSE kInvalidReverseIdx]
  /\ partitioned_keys =
       [s \in 0 .. (SlabLength(num_partition, max_num_key_per_partition) - 1) |-> 0]
  /\ pd_feature_ids =
       [s \in 0 .. (SlabLength(num_partition, max_num_key_per_partition) - 1) |-> 0]
  /\ work = <<>>
  /\ threads = <<>>
  /\ writes = [i \in 0 .. (DpCapacity - 1) |-> 0]
  /\ num_key_per_table = [i \in 0 .. num_partition |-> 0]
  /\ compacted_keys = partitioned_keys
  /\ h_num_keys = 0
  /\ sparse_reverse_idx = reverse_idx
  /\ NoFrequentKeys
  /\ NoSizing
  /\ Unused({"reader", "profiler", "ops", "sel", "dev", "freq", "fill", "shard", "hybrid"})

NextDp ==
  \/ PartitionAndUniqueOnDpInput
  \/ \E t \in ThreadIds : Cas(t)
  \/ \E t \in ThreadIds : AtomicAdd(t)
  \/ \E t \in ThreadIds : WriteKey(t)
  \/ \E t \in ThreadIds : Publish(t)
  \/ \E t \in ThreadIds : ReadBack(t)
  \/ KernelDone

SpecDp == InitDp /\ [][NextDp]_vars

(***************************************************************************)
(* init_hash_table_with_frequent_keys: one seeding kernel per entry of     *)
(* table_ids, all on the hash table that is cleared once.                  *)
(***************************************************************************)
NumFrequentKeys(h_frequent_keys) ==
  SumTo([i \in 0 .. (Len(h_frequent_keys) - 1) |-> Len(h_frequent_keys[i + 1])],
        Len(h_frequent_keys))

FrequentKeysTableCapacity(h_frequent_keys) == 2 * NumFrequentKeys(h_frequent_keys)

\* steps 1 and 2: create the hash table and clean it
InitHashTableWithFrequentKeys ==
  /\ phase = "start"
  /\ seed_table_ids # <<>>
  /\ table_capacity' = FrequentKeysTableCapacity(seed_keys)
  /\ table' = MemsetHashTable(table_capacity')
  /\ phase' = "seeding"
  /\ UNCHANGED <<extVars, inputVars, num_partition, max_num_key_per_partition, compVars, dpVars,
                 range_on_lookup_ids, seedVars, capVars, d_num_key_per_partition,
                 partitioned_keys, pd_feature_ids, reverse_idx, work, threads, writes>>

\* the hash table a seeding kernel works on: the operator's storage
SeedKernelTableCleared(storage) == [pos \in DOMAIN storage |-> EmptyEntry]

SeedKernelTable(storage) == storage

\* the work of init_frequent_keys_hash_table: find() for each key, with the
\* table id as the feature id; the result of find() is dropped
InitFrequentKeysWork(ks, num_keys, table_id) ==
  [i \in 1 .. num_keys |-> [key |-> ks[i], feature_id |-> table_id, out |-> -1]]

\* step 3 for entry seed_i: a fresh PartitionedData of one partition, whose
\* count nobody sets, and the launch of the kernel
LaunchInitFrequentKeys ==
  /\ phase = "seeding"
  /\ seed_i < Len(seed_table_ids)
  /\ seed_i' = seed_i + 1
  /\ num_partition' = 1
  /\ max_num_key_per_partition' = Len(seed_keys[seed_i'])
  /\ partitioned_keys' =
       [s \in 0 .. (SlabLength(1, max_num_key_per_partition') - 1) |-> 0]
  /\ pd_feature_ids' = partitioned_keys'
  /\ \E undefined \in Garbage : d_num_key_per_partition' = [p \in {0} |-> undefined]
  /\ table' = SeedKernelTable(table)
  /\ work' = InitFrequentKeysWork(seed_keys[seed_i'], Len(seed_keys[seed_i']),
                                  seed_table_ids[seed_i'])
  /\ threads' = [t \in DOMAIN work' |->
                   EnterFind(work'[t],
                             DummyPartitionerView(work'[t].key, work'[t].feature_id),
                             table_capacity, 1)]
  /\ at_launch' = [table |-> table', count |-> d_num_key_per_partition',
                   partitioned_keys |-> partitioned_keys',
                   feature_ids |-> pd_feature_ids']
  /\ phase' = "partition"
  /\ UNCHANGED <<extVars, inputVars, table_capacity, compVars, dpVars, range_on_lookup_ids,
                 seed_table_ids, seed_keys, returned, capVars, reverse_idx, writes>>

\* the seeding kernel has ended
InitFrequentKeysDone ==
  /\ phase = "partition"
  /\ \A t \in ThreadIds : threads[t].pc = "done"
  /\ returned' = returned \cup
                   {<<work[t].key, work[t].feature_id, threads[t].ret>> : t \in ThreadIds}
  /\ phase' = "seeding"
  /\ UNCHANGED <<extVars, inputVars, cfgVars, compVars, dpVars, range_on_lookup_ids,
                 seed_table_ids, seed_keys, seed_i, at_launch, capVars, table,
                 d_num_key_per_partition, partitioned_keys, pd_feature_ids,
                 reverse_idx, work, threads, writes>>

SeedLaunches == {1, 2}

InitSeed ==
  /\ phase = "start"
  /\ keys = <<>>
  /\ feature_ids = <<>>
  /\ lookup_id_to_local_table_id = <<>>
  /\ \E n \in SeedLaunches :
       /\ seed_table_ids \in [1 .. n -> Tables]
       /\ seed_keys \in [1 .. n -> UNION {[1 .. m -> Keys] : m \in 1 .. MaxSeedKeys}]
  /\ seed_i = 0
  /\ returned = {}
  /\ at_launch = <<>>
  /\ num_partition = 1
  /\ table_capacity = 0
  /\ max_num_key_per_partition = 0
  /\ table = <<>>
  /\ d_num_key_per_partition = <<>>
  /\ partitioned_keys = <<>>
  /\ pd_feature_ids = <<>>
  /\ reverse_idx = <<>>
  /\ work = <<>>
  /\ threads = <<>>
  /\ writes = <<>>
  /\ num_key_per_table = <<>>
  /\ compacted_keys = <<>>
  /\ h_num_keys = 0
  /\ sparse_reverse_idx = <<>>
  /\ NoDpInput
  /\ NoSizing
  /\ Unused({"reader", "profiler", "ops", "sel", "dev", "freq", "fill", "shard", "hybrid"})

NextSeed ==
  \/ InitHashTableWithFrequentKeys
  \/ LaunchInitFrequentKeys
  \/ \E t \in ThreadIds : Cas(t)
  \/ \E t \in ThreadIds : AtomicAdd(t)
  \/ \E t \in ThreadIds : WriteKey(t)
  \/ \E t \in ThreadIds : Publish(t)
  \/ \E t \in ThreadIds : ReadBack(t)
  \/ InitFrequentKeysDone

SpecSeed == InitSeed /\ [][NextSeed]_vars

(***************************************************************************)
(* The sizing of the hash table: the constructor and                       *)
(* init_hash_table_for_unique.                                             *)
(***************************************************************************)
RECURSIVE SumHotness(_, _)
\* the sum of max_hotness over a sequence of lookup ids
SumHotness(max_hotness, ids) ==
  IF ids = <<>> THEN 0
  ELSE max_hotness[Head(ids)] + SumHotness(max_hotness, Tail(ids))

\* the members the constructor sets
PartitionAndUniqueOperator(ebc, global_gpu_count, group_id) ==
  [num_local_lookup_ |-> Len(ebc.grouped_lookup_params[group_id]),
   num_local_features_ |-> SumHotness(ebc.max_hotness, ebc.grouped_lookup_params[group_id]),
   num_features_ |-> SumHotness(ebc.max_hotness,
                                [i \in 1 .. Len(ebc.grouped_lookup_params) |-> i - 1]),
   batch_size_ |-> ebc.universal_batch_size,
   global_gpu_count_ |-> global_gpu_count,
   batch_size_per_gpu_ |-> ebc.universal_batch_size \div global_gpu_count,
   d_lookup_ids_ |-> ebc.grouped_lookup_params[group_id]]

TableCapacitySecondTermOnly(o) == o.batch_size_per_gpu_ * o.num_features_

\* table_capacity_ of init_hash_table_for_unique
TableCapacityForUnique(o) ==
  IF o.batch_size_ * o.num_local_features_ >= o.batch_size_per_gpu_ * o.num_features_
  THEN o.batch_size_ * o.num_local_features_
  ELSE o.batch_size_per_gpu_ * o.num_features_

InitHashTableForUnique ==
  /\ phase = "constructed"
  /\ table_capacity' = TableCapacityForUnique(op)
  /\ phase' = "sized"
  /\ UNCHANGED <<extVars, inputVars, num_partition, max_num_key_per_partition, compVars, dpVars,
                 range_on_lookup_ids, seedVars, capVars, table, d_num_key_per_partition,
                 partitioned_keys, pd_feature_ids, reverse_idx, work, threads, writes>>

\* the sets of bucket sizes a lookup can come with: every bucket holds at
\* most max_hotness keys
BucketSizes(num_buckets, max_hotness) == [1 .. num_buckets -> 0 .. max_hotness]

\* the occurrences the data-parallel pass goes through: the buckets of this
\* GPU's batch_size_per_gpu_ samples of the lookups in d_lookup_ids_
DpInputSizes(o, max_hotness) ==
  LET RECURSIVE sizes(_)
      sizes(ids) ==
        IF ids = <<>> THEN {0}
        ELSE {SumTo([j \in 0 .. (o.batch_size_per_gpu_ - 1) |-> b[j + 1]],
                    o.batch_size_per_gpu_) + r :
                b \in BucketSizes(o.batch_size_per_gpu_, max_hotness[Head(ids)]),
                r \in sizes(Tail(ids))}
  IN  sizes(o.d_lookup_ids_)

\* the occurrences the pass by table id goes through: the keys that the
\* GPUs sent, each from its own data-parallel input
ByTableInputSizes(o, max_hotness) ==
  LET RECURSIVE sizes(_)
      sizes(g) == IF g = 0 THEN {0}
                  ELSE {a + b : a \in DpInputSizes(o, max_hotness), b \in sizes(g - 1)}
  IN  sizes(o.global_gpu_count_)

PresentDpInput ==
  /\ phase = "sized"
  /\ presented' \in DpInputSizes(op, ebc_param.max_hotness)
  /\ phase' = "dp input"
  /\ UNCHANGED <<extVars, inputVars, cfgVars, compVars, dpVars, range_on_lookup_ids, seedVars,
                 ebc_param, gpu_count, op, table, d_num_key_per_partition,
                 partitioned_keys, pd_feature_ids, reverse_idx, work, threads, writes>>

PresentByTableInput ==
  /\ phase = "sized"
  /\ presented' \in ByTableInputSizes(op, ebc_param.max_hotness)
  /\ phase' = "by table input"
  /\ UNCHANGED <<extVars, inputVars, cfgVars, compVars, dpVars, range_on_lookup_ids, seedVars,
                 ebc_param, gpu_count, op, table, d_num_key_per_partition,
                 partitioned_keys, pd_feature_ids, reverse_idx, work, threads, writes>>

Groupings == {<<<<0, 1>>>>, <<<<1, 0>>>>, <<<<0>>, <<1>>>>, <<<<1>>, <<0>>>>}
GpuCounts == {1, 2}

InitCap ==
  /\ phase = "constructed"
  /\ \E b \in 1 .. MaxBatch, h \in [Lookups -> 1 .. MaxHot], g \in Groupings :
       ebc_param = [universal_batch_size |-> b, max_hotness |-> h,
                    grouped_lookup_params |-> g]
  /\ gpu_count \in GpuCounts
  /\ \E group_id \in 1 .. Len(ebc_param.grouped_lookup_params) :
       op = PartitionAndUniqueOperator(ebc_param, gpu_count, group_id)
  /\ presented = 0
  /\ keys = <<>>
  /\ feature_ids = <<>>
  /\ lookup_id_to_local_table_id = <<>>
  /\ num_partition = 1
  /\ table_capacity = 0
  /\ max_num_key_per_partition = 0
  /\ table = <<>>
  /\ d_num_key_per_partition = <<>>
  /\ partitioned_keys = <<>>
  /\ pd_feature_ids = <<>>
  /\ reverse_idx = <<>>
  /\ work = <<>>
  /\ threads = <<>>
  /\ writes = <<>>
  /\ num_key_per_table = <<>>
  /\ compacted_keys = <<>>
  /\ h_num_keys = 0
  /\ sparse_reverse_idx = <<>>
  /\ NoDpInput
  /\ NoFrequentKeys
  /\ Unused({"reader", "profiler", "ops", "sel", "dev", "freq", "fill", "shard", "hybrid"})

NextCap ==
  \/ InitHashTableForUnique
  \/ PresentDpInput
  \/ PresentByTableInput

SpecCap == InitCap /\ [][NextCap]_vars

\* the partition, compaction and sizing operators take no part
CoreIdle ==
  /\ phase = "idle"
  /\ keys = <<>>
  /\ feature_ids = <<>>
  /\ lookup_id_to_local_table_id = <<>>
  /\ num_partition = 0
  /\ table_capacity = 0
  /\ max_num_key_per_partition = 0
  /\ table = <<>>
  /\ d_num_key_per_partition = <<>>
  /\ partitioned_keys = <<>>
  /\ pd_feature_ids = <<>>
  /\ reverse_idx = <<>>
  /\ work = <<>>
  /\ threads = <<>>
  /\ writes = <<>>
  /\ num_key_per_table = <<>>
  /\ compacted_keys = <<>>
  /\ h_num_keys = 0
  /\ sparse_reverse_idx = <<>>
  /\ NoDpInput
  /\ NoFrequentKeys
  /\ NoSizing

(***************************************************************************)
(* SelectValidReverseIdxOperator: cub::DeviceSelect::If on the reverse     *)
(* index, with the reverse index as its input and as its output.           *)
(***************************************************************************)
SelectValidReverseIdxAll(idx) == TRUE

\* SelectValidReverseIdx::operator()
SelectValidReverseIdx(idx) == idx # kInvalidReverseIdx

NumTiles(num_items) == (num_items + TileSize - 1) \div TileSize

\* the entries of array d that tile k covers, in order
TileItems(d, num_items, k) ==
  [j \in 1 .. (IF (k + 1) * TileSize <= num_items THEN TileSize
               ELSE num_items - k * TileSize) |-> d[k * TileSize + j - 1]]

SelectedOf(items) == SelectSeq(items, SelectValidReverseIdx)

\* the call: the selection is launched on the reverse index, in place
SelectValidReverseIdxOperator ==
  /\ sel.pc = "start"
  /\ sel' = [sel EXCEPT !.pc = "select",
                        !.tiles = [k \in 0 .. (NumTiles(sel.num_items) - 1) |->
                                     [pc |-> "load", items |-> <<>>, offset |-> 0]]]
  /\ UNCHANGED <<coreVars, hostVars, dev, freq, fill, shard, hybrid>>

\* tile k reads its entries of the input
TileLoad(k) ==
  /\ sel.pc = "select"
  /\ sel.tiles[k].pc = "load"
  /\ sel' = [sel EXCEPT !.tiles[k].pc = "scan",
                        !.tiles[k].items = TileItems(sel.data, sel.num_items, k)]
  /\ UNCHANGED <<coreVars, hostVars, dev, freq, fill, shard, hybrid>>

\* tile k learns how many entries the tiles before it have selected, once
\* its predecessor has made that number known
TileScan(k) ==
  /\ sel.pc = "select"
  /\ sel.tiles[k].pc = "scan"
  /\ k > 0 => sel.tiles[k - 1].pc \in {"scatter", "done"}
  /\ sel' = [sel EXCEPT !.tiles[k].pc = "scatter",
                        !.tiles[k].offset =
                          IF k = 0 THEN 0
                          ELSE sel.tiles[k - 1].offset +
                               Len(SelectedOf(sel.tiles[k - 1].items))]
  /\ UNCHANGED <<coreVars, hostVars, dev, freq, fill, shard, hybrid>>

\* tile k stores the entries it selected to the output, which is the input
\* array; the last tile stores the number of selected entries
TileScatter(k) ==
  /\ sel.pc = "select"
  /\ sel.tiles[k].pc = "scatter"
  /\ LET out == SelectedOf(sel.tiles[k].items)
         off == sel.tiles[k].offset
     IN  sel' = [sel EXCEPT
                   !.tiles[k].pc = "done",
                   !.data = [i \in DOMAIN sel.data |->
                               IF i >= off /\ i < off + Len(out)
                               THEN out[i - off + 1] ELSE sel.data[i]],
                   !.h_num_reverse_idx =
                      IF k = NumTiles(sel.num_items) - 1
                      THEN off + Len(out) ELSE sel.h_num_reverse_idx]
  /\ UNCHANGED <<coreVars, hostVars, dev, freq, fill, shard, hybrid>>

\* the selection has ended
SelectDone ==
  /\ sel.pc = "select"
  /\ \A k \in DOMAIN sel.tiles : sel.tiles[k].pc = "done"
  /\ sel' = [sel EXCEPT !.pc = "selected",
                        !.h_num_reverse_idx =
                          IF sel.num_items = 0 THEN 0 ELSE sel.h_num_reverse_idx]
  /\ UNCHANGED <<coreVars, hostVars, dev, freq, fill, shard, hybrid>>

ReverseIdxValues == {0, 1, kInvalidReverseIdx}

InitSel ==
  /\ CoreIdle
  /\ Unused({"reader", "profiler", "ops", "dev", "freq", "fill", "shard", "hybrid"})
  /\ \E n \in 0 .. MaxSelItems, g \in Garbage :
       \E d \in [0 .. (n - 1) -> ReverseIdxValues] :
         sel = [pc |-> "start", num_items |-> n, d_in |-> d, data |-> d,
                tiles |-> <<>>, h_num_reverse_idx |-> g]

NextSel ==
  \/ SelectValidReverseIdxOperator
  \/ \E k \in DOMAIN sel.tiles : TileLoad(k)
  \/ \E k \in DOMAIN sel.tiles : TileScan(k)
  \/ \E k \in DOMAIN sel.tiles : TileScatter(k)
  \/ SelectDone

SpecSel == InitSel /\ [][NextSel]_vars

(***************************************************************************)
(* Two steps on one operator, each on the stream its caller gives: what    *)
(* the host puts into the streams, and the order the device runs it in.    *)
(***************************************************************************)
Streams == {1, 2}
Steps == {1, 2}

\* the work partition_and_unique_by_table_id puts into its stream, in order
ByTableIdOps == <<"memset_table", "memset_count", "kernel">>

\* the work partition_and_unique_on_dp_input (Dense) puts into its stream
DpInputDenseOps == <<"cal_range", "memset_table", "memset_count", "kernel">>

OpsOf(kind) == IF kind = "by_table_id" THEN ByTableIdOps ELSE DpInputDenseOps

\* the host makes the next asynchronous call of step n; it waits for nothing
HostIssue(n) ==
  /\ dev.pc[n] <= Len(OpsOf(dev.kind[n]))
  /\ n > 1 => dev.pc[n - 1] > Len(OpsOf(dev.kind[n - 1]))
  /\ LET o == OpsOf(dev.kind[n])[dev.pc[n]]
         st == dev.stream[n]
     IN  dev' = [dev EXCEPT
                   !.pc[n] = @ + 1,
                   !.queue[st] = Append(@, [step |-> n, op |-> o,
                                            left |-> IF o = "kernel"
                                                     THEN InsertsPerKernel ELSE 1])]
  /\ UNCHANGED <<coreVars, hostVars, sel, freq, fill, shard, hybrid>>

\* the device runs the work at the head of stream st: a memset at once, a
\* kernel one insertion at a time
DeviceRun(st) ==
  /\ dev.queue[st] # <<>>
  /\ LET h == Head(dev.queue[st])
     IN  dev' = [dev EXCEPT
                   !.queue[st] = IF h.left = 1 THEN Tail(@)
                                 ELSE <<[h EXCEPT !.left = @ - 1]>> \o Tail(@),
                   !.log = Append(@, <<h.step, h.op>>)]
  /\ UNCHANGED <<coreVars, hostVars, sel, freq, fill, shard, hybrid>>

InitStreams ==
  /\ CoreIdle
  /\ Unused({"reader", "profiler", "ops", "sel", "freq", "fill", "shard", "hybrid"})
  /\ \E k \in [Steps -> {"by_table_id", "dp_input_dense"}], st \in [Steps -> Streams] :
       dev = [kind |-> k, stream |-> st, pc |-> [n \in Steps |-> 1],
              queue |-> [q \in Streams |-> <<>>], log |-> <<>>]

NextStreams ==
  \/ \E n \in Steps : HostIssue(n)
  \/ \E st \in Streams : DeviceRun(st)

SpecStreams == InitStreams /\ [][NextStreams]_vars

(***************************************************************************)
(* Seeding, then a partition pass: which table the pass is given and what  *)
(* it clears before its kernel starts.                                     *)
(***************************************************************************)
EmbeddingTypes == {"Dense", "FrequentDense", "InfrequentDense"}
PassKinds == EmbeddingTypes \cup {"by_table_id"}

\* the pass clears hash_table_storage_ before its kernel
ClearsHashTable(kind) == kind \in {"Dense", "by_table_id"}

\* the storage the hash table view of the pass is built on
ConsultedTable(kind, hash_table_storage, frequent_key_hash_table_storage) ==
  IF kind \in {"FrequentDense", "InfrequentDense"}
  THEN frequent_key_hash_table_storage
  ELSE hash_table_storage

\* a partition pass after the seeding has ended, up to the launch of its
\* kernel: partition_and_unique_on_dp_input with an embedding type, or
\* partition_and_unique_by_table_id
LaterPass(kind) ==
  /\ phase = "seeding"
  /\ seed_i = Len(seed_table_ids)
  /\ table' = IF ClearsHashTable(kind) THEN MemsetHashTable(table_capacity) ELSE table
  /\ d_num_key_per_partition' = MemsetNumKey(num_partition)
  /\ freq' = [freq EXCEPT !.pass = kind,
                          !.consulted = ConsultedTable(kind, table', freq.storage)]
  /\ phase' = "pass launched"
  /\ UNCHANGED <<inputVars, cfgVars, compVars, dpVars, range_on_lookup_ids, seedVars,
                 capVars, sel, dev, fill, shard, hybrid, hostVars, partitioned_keys,
                 pd_feature_ids, reverse_idx, work, threads, writes>>

InitSeedThenPass ==
  /\ phase = "start"
  /\ keys = <<>>
  /\ feature_ids = <<>>
  /\ lookup_id_to_local_table_id = <<>>
  /\ \E n \in SeedLaunches :
       /\ seed_table_ids \in [1 .. n -> Tables]
       /\ seed_keys \in [1 .. n -> UNION {[1 .. m -> Keys] : m \in 1 .. MaxSeedKeys}]
  /\ seed_i = 0
  /\ returned = {}
  /\ at_launch = <<>>
  /\ num_partition = 1
  /\ table_capacity = 0
  /\ max_num_key_per_partition = 0
  /\ table = <<>>
  /\ d_num_key_per_partition = <<>>
  /\ partitioned_keys = <<>>
  /\ pd_feature_ids = <<>>
  /\ reverse_idx = <<>>
  /\ work = <<>>
  /\ threads = <<>>
  /\ writes = <<>>
  /\ num_key_per_table = <<>>
  /\ compacted_keys = <<>>
  /\ h_num_keys = 0
  /\ sparse_reverse_idx = <<>>
  /\ NoDpInput
  /\ NoSizing
  /\ Unused({"reader", "profiler", "ops", "sel", "dev", "fill", "shard", "hybrid"})
  /\ \E g \in Garbage :
       freq = [storage |-> [pos \in 0 .. (FrequentKeysTableCapacity(seed_keys) - 1) |->
                              IF g = 0 THEN EmptyEntry ELSE StaleEntry],
               pass |-> "none", consulted |-> <<>>]

NextSeedThenPass ==
  \/ InitHashTableWithFrequentKeys
  \/ LaunchInitFrequentKeys
  \/ \E t \in ThreadIds : Cas(t)
  \/ \E t \in ThreadIds : AtomicAdd(t)
  \/ \E t \in ThreadIds : WriteKey(t)
  \/ \E t \in ThreadIds : Publish(t)
  \/ \E t \in ThreadIds : ReadBack(t)
  \/ InitFrequentKeysDone
  \/ \E kind \in PassKinds : LaterPass(kind)

SpecSeedThenPass == InitSeedThenPass /\ [][NextSeedThenPass]_vars

(***************************************************************************)
(* compress_reverse_idx_range_kernel on a reverse index as a partition     *)
(* pass leaves it: every entry is the slot of a key of its partition, or   *)
(* kInvalidReverseIdx where find() returned 0.                             *)
(***************************************************************************)
\* the slab slots that hold a key, given the counts of the partitions
LiveSlabSlots(counts, np, max_per_partition) ==
  {p * max_per_partition + j : p \in 0 .. (np - 1), j \in 0 .. (max_per_partition - 1)}
    \cap {s \in 0 .. (np * max_per_partition - 1) :
            s % max_per_partition < counts[s \div max_per_partition]}

InitCompress ==
  /\ phase = "compacted"
  /\ \E n \in 0 .. MaxNumKeys :
       /\ keys = [i \in 1 .. n |-> 0]
       /\ feature_ids = [i \in 1 .. n |-> 0]
  /\ lookup_id_to_local_table_id = <<>>
  /\ num_partition \in {1, 2}
  /\ table_capacity = 0
  /\ max_num_key_per_partition = MaxNumKeys
  /\ table = <<>>
  /\ d_num_key_per_partition \in [0 .. (num_partition - 1) -> 0 .. 2]
  /\ num_key_per_table = ScanNumKey(d_num_key_per_partition, num_partition)
  /\ h_num_keys = num_key_per_table[num_partition]
  /\ reverse_idx \in
       [0 .. (Len(keys) - 1) ->
          LiveSlabSlots(d_num_key_per_partition, num_partition, max_num_key_per_partition)
            \cup {kInvalidReverseIdx}]
  /\ sparse_reverse_idx = reverse_idx
  /\ partitioned_keys = <<>>
  /\ pd_feature_ids = <<>>
  /\ work = <<>>
  /\ threads = <<>>
  /\ writes = <<>>
  /\ compacted_keys = <<>>
  /\ NoDpInput
  /\ NoFrequentKeys
  /\ NoSizing
  /\ Unused({"reader", "profiler", "ops", "sel", "dev", "freq", "fill", "shard", "hybrid"})

NextCompress == CompressReverseIdxRange

SpecCompress == InitCompress /\ [][NextCompress]_vars

(***************************************************************************)
(* fill_continuous_bucket_ids, and a step of the data-parallel path that   *)
(* uses the number of bucket ids it reports.                               *)
(***************************************************************************)
max_thread_per_block == 1024

\* mutant: h_num_bucket_ids is not cleared before the count kernel
FillMemsetSkipped(h) == h

\* cudaMemsetAsync(h_num_bucket_ids, 0)
FillMemset(h) == 0

\* a launch with a grid or a block of no threads is refused with
\* cudaErrorInvalidConfiguration and runs nothing
LaunchRuns(grid_size, block_size) == grid_size >= 1 /\ block_size >= 1

\* count_num_bucket_ids_kernel: the sum over the selected lookups of the end
\* of the lookup's bucket range
count_num_bucket_ids_kernel(br, nspl, lids) ==
  SumTo([i \in 0 .. (Len(lids) - 1) |-> br[lids[i + 1]][nspl]], Len(lids))

ceildiv(a, b) == (a + b - 1) \div b

FillContinuousBucketIds ==
  /\ fill.pc = "start"
  /\ LET block_size == IF Len(lookup_ids) < max_thread_per_block
                       THEN Len(lookup_ids) ELSE max_thread_per_block
         counted == LaunchRuns(1, block_size)
         num_keys == IF counted
                     THEN count_num_bucket_ids_kernel(bucket_range, num_sample_per_lookup,
                                                      lookup_ids)
                     ELSE FillMemset(fill.h_num_bucket_ids)
         grid_size == ceildiv(num_keys, max_thread_per_block)
         generated == LaunchRuns(grid_size, max_thread_per_block)
     IN  fill' = [pc |-> "done",
                  h_num_bucket_ids |-> num_keys,
                  bucket_ids |-> [i \in DOMAIN fill.bucket_ids |->
                                    IF generated /\ i < num_keys THEN i
                                    ELSE fill.bucket_ids[i]],
                  last_error |-> IF counted /\ generated THEN "cudaSuccess"
                                 ELSE "cudaErrorInvalidConfiguration",
                  thrown |-> FALSE]
  /\ UNCHANGED <<coreVars, hostVars, sel, dev, freq, shard, hybrid>>

\* CompressReverseIdxRangeOperator::operator() with the number of bucket ids
\* that fill_continuous_bucket_ids reported
CompressReverseIdxRangeOfBucketIds ==
  /\ phase = "compacted"
  /\ fill.pc = "done"
  /\ sparse_reverse_idx' = reverse_idx
  /\ \E undefined \in Keys :
       reverse_idx' =
         [i \in DOMAIN reverse_idx |->
            IF i < fill.h_num_bucket_ids
              THEN IF reverse_idx[i] \div max_num_key_per_partition < num_partition
                     THEN CompressOne(reverse_idx[i], d_num_key_per_partition,
                                      max_num_key_per_partition)
                     ELSE undefined
              ELSE reverse_idx[i]]
  /\ phase' = "compressed"
  /\ UNCHANGED <<extVars, inputVars, cfgVars, dpVars, range_on_lookup_ids, seedVars, capVars,
                 num_key_per_table,
                 compacted_keys, h_num_keys, table, d_num_key_per_partition,
                 partitioned_keys, pd_feature_ids, work, threads, writes>>

InitFill ==
  /\ phase = "start"
  /\ keys = <<>>
  /\ feature_ids = <<>>
  /\ num_sample_per_lookup \in 1 .. MaxSample
  /\ lookup_ids \in {<<>>, <<0>>, <<1>>, <<0, 1>>}
  /\ \E hot \in [Lookups -> [1 .. num_sample_per_lookup -> 0 .. MaxHot]] :
       bucket_range = [u \in Lookups |-> BucketRangeOf(hot[u])]
  /\ \E first \in [Lookups -> Keys], step \in [Lookups -> {0, 1}] :
       dp_keys = [u \in Lookups |->
                    [j \in 1 .. bucket_range[u][num_sample_per_lookup] |->
                       (first[u] + step[u] * (j - 1)) % Cardinality(Keys)]]
  /\ range_on_lookup_ids = [k \in 1 .. Len(lookup_ids) |-> 0]
  /\ lookup_id_to_local_table_id =
       TablePartitioner(Range(lookup_ids), [u \in Lookups |-> u])
  /\ num_partition = Len(lookup_ids)
  /\ table_capacity = DpCapacity
  /\ max_num_key_per_partition = DpCapacity
  /\ \E g \in Garbage :
       /\ table = [pos \in 0 .. (table_capacity - 1) |->
                     IF g = 0 THEN EmptyEntry ELSE StaleEntry]
       /\ d_num_key_per_partition = [p \in 0 .. (num_partition - 1) |-> g]
       /\ reverse_idx = [i \in 0 .. (DpCapacity - 1) |->
                           IF g = 0 THEN 0 ELSE kInvalidReverseIdx]
       /\ num_key_per_table = [i \in 0 .. num_partition |-> g]
       /\ h_num_keys = g
       /\ fill = [pc |-> "start", h_num_bucket_ids |-> g,
                  bucket_ids |-> [i \in 0 .. (DpCapacity - 1) |-> g],
                  last_error |-> "cudaSuccess", thrown |-> FALSE]
  /\ partitioned_keys =
       [s \in 0 .. (SlabLength(num_partition, max_num_key_per_partition) - 1) |-> 0]
  /\ pd_feature_ids =
       [s \in 0 .. (SlabLength(num_partition, max_num_key_per_partition) - 1) |-> 0]
  /\ work = <<>>
  /\ threads = <<>>
  /\ writes = [i \in 0 .. (DpCapacity - 1) |-> 0]
  /\ compacted_keys = partitioned_keys
  /\ sparse_reverse_idx = reverse_idx
  /\ NoFrequentKeys
  /\ NoSizing
  /\ Unused({"reader", "profiler", "ops", "sel", "dev", "freq", "shard", "hybrid"})

NextFill ==
  \/ FillContinuousBucketIds
  \/ PartitionAndUniqueOnDpInput
  \/ \E t \in ThreadIds : Cas(t)
  \/ \E t \in ThreadIds : AtomicAdd(t)
  \/ \E t \in ThreadIds : WriteKey(t)
  \/ \E t \in ThreadIds : Publish(t)
  \/ \E t \in ThreadIds : ReadBack(t)
  \/ KernelDone
  \/ CompactPartitionData
  \/ CompressReverseIdxRangeOfBucketIds

SpecFill == InitFill /\ [][NextFill]_vars

(***************************************************************************)
(* ShardPartitioner::ShardPartitioner: one iteration of the loop over      *)
(* lookup_ids at a time, then the scan and the copies.  A read or a write  *)
(* outside a vector is undefined: the read gives any value, the write      *)
(* leaves the vector as it is, or the process ends.                        *)
(***************************************************************************)
MaxGpu == 2
MaxLookup == 2

\* shard_matrix[gpu_id][lookup_id] is an element of the matrix
InMatrix(m, gpu_id, lookup_id) ==
  /\ gpu_id < Len(m)
  /\ lookup_id < Len(m[gpu_id + 1])

\* the gpu ids the inner loop pushes for lookup_id, given what the reads
\* outside the matrix returned
ShardGpuIds(m, num_global_gpu_count, lookup_id, outside) ==
  LET RECURSIVE push(_)
      push(n) ==
        IF n = 0 THEN <<>>
        ELSE LET gpu_id == n - 1
                 v == IF InMatrix(m, gpu_id, lookup_id)
                      THEN m[gpu_id + 1][lookup_id + 1] ELSE outside[gpu_id]
             IN  IF v = 0 THEN push(n - 1) ELSE Append(push(n - 1), gpu_id)
  IN  push(num_global_gpu_count)

\* std::inclusive_scan over h_num_shard_range
InclusiveScan(v) == [i \in DOMAIN v |-> SumTo(v, i + 1)]

ShardPartitionerLookup ==
  /\ shard.pc = "loop"
  /\ shard.i < Len(shard.lookup_ids)
  /\ LET lookup_id == shard.lookup_ids[shard.i + 1]
         reads_outside == \E g \in 0 .. (shard.num_global_gpu_count - 1) :
                            ~InMatrix(shard.shard_matrix, g, lookup_id)
         writes_outside == lookup_id + 1 > shard.num_lookup
     IN  \E outside \in [0 .. (shard.num_global_gpu_count - 1) -> {0, 1}],
            ends \in BOOLEAN :
           LET pushed == ShardGpuIds(shard.shard_matrix, shard.num_global_gpu_count,
                                     lookup_id, outside)
           IN  /\ ends => (reads_outside \/ writes_outside)
               /\ (~reads_outside) => \A g \in DOMAIN outside : outside[g] = 0
               /\ shard' =
                    [shard EXCEPT
                       !.pc = IF ends THEN "ended" ELSE @,
                       !.i = @ + 1,
                       !.h_gpu_ids = @ \o pushed,
                       !.h_num_shard_range =
                          IF writes_outside THEN @
                          ELSE [@ EXCEPT ![lookup_id + 1] = Len(pushed)],
                       !.read_outside = @ \/ reads_outside,
                       !.written_outside = @ \/ writes_outside]
  /\ UNCHANGED <<coreVars, hostVars, sel, dev, freq, fill, hybrid>>

ShardPartitionerBuilt ==
  /\ shard.pc = "loop"
  /\ shard.i = Len(shard.lookup_ids)
  /\ shard' = [shard EXCEPT !.pc = "built",
                            !.gpu_ids = shard.h_gpu_ids,
                            !.num_shard_range = InclusiveScan(shard.h_num_shard_range)]
  /\ UNCHANGED <<coreVars, hostVars, sel, dev, freq, fill, hybrid>>

\* the matrices of at most MaxGpu rows of the same length, at most MaxLookup
ShardMatrices ==
  UNION {[1 .. r -> [1 .. c -> {0, 1}]] : r \in 0 .. MaxGpu, c \in 0 .. MaxLookup}

\* the lists of distinct lookup ids, which need not be ids of the collection
LookupIdLists ==
  {l \in UNION {[1 .. n -> 0 .. MaxLookup] : n \in 0 .. MaxLookup} :
     \A a, b \in DOMAIN l : a # b => l[a] # l[b]}

InitShard ==
  /\ CoreIdle
  /\ Unused({"reader", "profiler", "ops", "sel", "dev", "freq", "fill", "hybrid"})
  /\ \E num_lookup \in 1 .. MaxLookup, num_global_gpu_count \in 1 .. MaxGpu,
        m \in ShardMatrices, l \in LookupIdLists :
       shard = [pc |-> "loop", i |-> 0,
                num_lookup |-> num_lookup,
                num_global_gpu_count |-> num_global_gpu_count,
                shard_matrix |-> m,
                lookup_ids |-> l,
                h_gpu_ids |-> <<>>,
                h_num_shard_range |-> [k \in 0 .. num_lookup |-> 0],
                gpu_ids |-> <<>>,
                num_shard_range |-> <<>>,
                read_outside |-> FALSE,
                written_outside |-> FALSE]

NextShard ==
  \/ ShardPartitionerLookup
  \/ ShardPartitionerBuilt

SpecShard == InitShard /\ [][NextShard]_vars

(***************************************************************************)
(* The hybrid-embedding Model: the placement of the categories.  The body  *)
(* of init_model is not part of the sources; the placement follows the     *)
(* contract of the Model in the specification.                             *)
(***************************************************************************)
MaxCategories == 3
MaxCount == 2
MaxCalibrations == 2
Instances == {0, 1}

\* mutant: ties by descending category
CategoriesSortedTiesDescending(counts) ==
  LET observed == {c \in DOMAIN counts : counts[c] > 0}
      before(d, c) == counts[d] > counts[c] \/ (counts[d] = counts[c] /\ d > c)
  IN  [n \in 1 .. Cardinality(observed) |->
         CHOOSE c \in observed : Cardinality({d \in observed : before(d, c)}) = n - 1]

\* Statistics: the observed categories by descending count, ties by
\* ascending category
CategoriesSorted(counts) ==
  LET observed == {c \in DOMAIN counts : counts[c] > 0}
      before(d, c) == counts[d] > counts[c] \/ (counts[d] = counts[c] /\ d < c)
  IN  [n \in 1 .. Cardinality(observed) |->
         CHOOSE c \in observed : Cardinality({d \in observed : before(d, c)}) = n - 1]

\* the categories of S in ascending order
Ascending(S) ==
  [n \in 1 .. Cardinality(S) |->
     CHOOSE c \in S : Cardinality({d \in S : d < c}) = n - 1]

\* mutant: the last n entries of the ranking
TakeLast(sorted, n) == [k \in 1 .. n |-> sorted[Len(sorted) - n + k]]

\* the first n entries of the ranking
TakeFirst(sorted, n) == [k \in 1 .. n |-> sorted[k]]

\* mutant: the boundary case is not recognised
NeverDegenerate(num_unique, requested) == FALSE

\* the data has fewer unique categories than frequent slots are requested
Degenerate(num_unique, requested) == num_unique < requested

\* the frequent categories in the order of their cache slots: the top
\* requested categories of the ranking, or every category in the boundary case
FrequentOrder(num_categories, sorted, requested) ==
  IF Degenerate(Len(sorted), requested)
  THEN sorted \o Ascending((0 .. (num_categories - 1)) \ Range(sorted))
  ELSE TakeFirst(sorted, IF requested < Len(sorted) THEN requested ELSE Len(sorted))

\* mutant: every category is given a shard location
InfrequentOrderAll(num_categories, frequent) == Ascending(0 .. (num_categories - 1))

\* the remaining categories, in the order in which they are given their
\* shard locations
InfrequentOrder(num_categories, frequent) ==
  Ascending((0 .. (num_categories - 1)) \ Range(frequent))

\* the place of x in the sequence without repetitions q
PlaceIn(q, x) == CHOOSE k \in DOMAIN q : q[k] = x

\* init_model: num_frequent, category_frequent_index (num_categories where
\* the category is not frequent) and category_location (the instance and the
\* index there; <<>> where the category is frequent)
InitModelOf(num_categories, counts, requested) ==
  LET sorted == CategoriesSorted(counts)
      frequent == FrequentOrder(num_categories, sorted, requested)
      rest == InfrequentOrder(num_categories, frequent)
  IN  [num_frequent |-> Len(frequent),
       category_frequent_index |->
         [c \in 0 .. (num_categories - 1) |->
            IF c \in Range(frequent) THEN PlaceIn(frequent, c) - 1 ELSE num_categories],
       category_location |->
         [c \in 0 .. (num_categories - 1) |->
            IF c \in Range(rest)
            THEN <<(PlaceIn(rest, c) - 1) % Cardinality(Instances),
                   (PlaceIn(rest, c) - 1) \div Cardinality(Instances)>>
            ELSE <<>>]]

\* init_model on the statistics of the data
InitModel ==
  /\ hybrid.pc = "statistics"
  /\ \E requested \in 0 .. (MaxCategories + 1) :
       hybrid' = [hybrid EXCEPT !.pc = "model",
                               !.requested = requested,
                               !.model = InitModelOf(hybrid.num_categories, hybrid.counts,
                                                     requested)]
  /\ UNCHANGED <<coreVars, hostVars, sel, dev, freq, fill, shard>>

\* the traffic has drifted: new statistics, and init_model is invoked again
Recalibrate ==
  /\ hybrid.pc = "model"
  /\ hybrid.calibrations < MaxCalibrations
  /\ \E counts \in [0 .. (hybrid.num_categories - 1) -> 0 .. MaxCount],
        requested \in 0 .. (MaxCategories + 1) :
       hybrid' = [hybrid EXCEPT !.counts = counts,
                               !.categories_sorted = CategoriesSorted(counts),
                               !.requested = requested,
                               !.calibrations = @ + 1,
                               !.model = InitModelOf(hybrid.num_categories, counts,
                                                     requested)]
  /\ UNCHANGED <<coreVars, hostVars, sel, dev, freq, fill, shard>>

InitHybrid ==
  /\ CoreIdle
  /\ Unused({"reader", "profiler", "ops", "sel", "dev", "freq", "fill", "shard"})
  /\ \E num_categories \in 1 .. MaxCategories :
       \E counts \in [0 .. (num_categories - 1) -> 0 .. MaxCount] :
         hybrid = [pc |-> "statistics", num_categories |-> num_categories,
                   counts |-> counts,
                   categories_sorted |-> CategoriesSorted(counts),
                   requested |-> 0, calibrations |-> 0, model |-> <<>>]

NextHybrid ==
  \/ InitModel
  \/ Recalibrate

SpecHybrid == InitHybrid /\ [][NextHybrid]_vars

(***************************************************************************)
(* CalibrationData: the measured (size, time) samples of a collective and  *)
(* the interpolation of a time at a message size.  The bodies of the       *)
(* interpolate functions are not part of the sources; they follow the      *)
(* contract of CalibrationData in the specification.  A time is the exact  *)
(* fraction <<numerator, denominator>>.                                    *)
(***************************************************************************)
MaxDataSize == 5
MaxTime == 3
MaxBandwidth == 2

\* mutant: the line through the first two samples is used for every size
FirstBracket(calibrated_data_size, data_size) == 1

\* the sample at or below data_size whose successor is above it
Bracket(calibrated_data_size, data_size) ==
  CHOOSE i \in 1 .. (Len(calibrated_data_size) - 1) :
    /\ calibrated_data_size[i] <= data_size
    /\ data_size < calibrated_data_size[i + 1]

\* interpolate: the time of the first sample below the samples, the bandwidth
\* bound above them, and the line between the two bracketing samples between
interpolate(calibrated_data_size, calibrated_times, max_bandwidth, data_size) ==
  IF data_size < calibrated_data_size[1] THEN <<calibrated_times[1], 1>>
  ELSE IF data_size = calibrated_data_size[Len(calibrated_data_size)]
       THEN <<calibrated_times[Len(calibrated_times)], 1>>
  ELSE IF data_size > calibrated_data_size[Len(calibrated_data_size)]
       THEN <<data_size, max_bandwidth>>
  ELSE LET i == Bracket(calibrated_data_size, data_size)
           x0 == calibrated_data_size[i]
           x1 == calibrated_data_size[i + 1]
           t0 == calibrated_times[i]
           t1 == calibrated_times[i + 1]
       IN  <<t0 * (x1 - x0) + (t1 - t0) * (data_size - x0), x1 - x0>>

InterpolateAllToAll ==
  /\ hybrid.h_all_to_all_data_size # <<>>
  /\ \E data_size \in 0 .. (MaxDataSize + 1) :
       hybrid' = [hybrid EXCEPT
                    !.data_size = data_size,
                    !.communication_time =
                       interpolate(hybrid.h_all_to_all_data_size, hybrid.h_all_to_all_times,
                                   hybrid.max_all_to_all_bandwidth, data_size)]
  /\ UNCHANGED <<coreVars, hostVars, sel, dev, freq, fill, shard>>

InterpolateAllReduce ==
  /\ hybrid.h_all_reduce_data_size # <<>>
  /\ \E data_size \in 0 .. (MaxDataSize + 1) :
       hybrid' = [hybrid EXCEPT
                    !.data_size = data_size,
                    !.communication_time =
                       interpolate(hybrid.h_all_reduce_data_size, hybrid.h_all_reduce_times,
                                   hybrid.max_all_reduce_bandwidth, data_size)]
  /\ UNCHANGED <<coreVars, hostVars, sel, dev, freq, fill, shard>>

\* the calibrations of two or three samples with strictly increasing sizes
\* and positive times
Calibrations ==
  UNION {{c \in [size : [1 .. n -> 1 .. MaxDataSize], time : [1 .. n -> 1 .. MaxTime]] :
            \A k \in 1 .. (n - 1) : c.size[k] < c.size[k + 1]} : n \in {2, 3}}

\* measured mode: one collective is calibrated
InitCalibration ==
  /\ CoreIdle
  /\ Unused({"reader", "profiler", "ops", "sel", "dev", "freq", "fill", "shard"})
  /\ \E c \in Calibrations, bw \in 1 .. MaxBandwidth, all_to_all \in BOOLEAN :
       hybrid = [h_all_to_all_data_size |-> IF all_to_all THEN c.size ELSE <<>>,
                 h_all_to_all_times |-> IF all_to_all THEN c.time ELSE <<>>,
                 h_all_reduce_data_size |-> IF all_to_all THEN <<>> ELSE c.size,
                 h_all_reduce_times |-> IF all_to_all THEN <<>> ELSE c.time,
                 max_all_to_all_bandwidth |-> bw,
                 max_all_reduce_bandwidth |-> bw,
                 data_size |-> 0,
                 communication_time |-> <<>>]

NextCalibration ==
  \/ InterpolateAllToAll
  \/ InterpolateAllReduce

SpecCalibration == InitCalibration /\ [][NextCalibration]_vars

(***************************************************************************)
(* Statistics::sort_categories_by_count and generate_reference_stats, the  *)
(* host reference of the test, on the same batch.                          *)
(***************************************************************************)
MaxStatBatch == 3
MaxTables == 2
MaxTableSize == 2

\* EmbeddingTableFunctors::get_embedding_offsets: where the categories of a
\* table start
EmbeddingOffsets(table_sizes) ==
  [t \in DOMAIN table_sizes |->
     SumTo([j \in 0 .. (Len(table_sizes) - 1) |-> table_sizes[j + 1]], t - 1)]

\* samples[indx] = embedding_offsets[embedding] + data[indx], where
\* indx = sample * num_embeddings + embedding
SamplesOf(data, table_sizes) ==
  [indx \in DOMAIN data |->
     EmbeddingOffsets(table_sizes)[((indx - 1) % Len(table_sizes)) + 1] + data[indx]]

\* the number of samples equal to category c
CountOf(samples, c) == Cardinality({i \in DOMAIN samples : samples[i] = c})

\* std::stable_sort of the indices 0 .. n-1 with v[i1] > v[i2] as the order:
\* an index goes behind every index placed before it whose value is not
\* smaller
RECURSIVE arg_sort(_, _)
arg_sort(v, n) ==
  IF n = 0 THEN <<>>
  ELSE LET sorted == arg_sort(v, n - 1)
           i == n - 1
           keep == Cardinality({k \in DOMAIN sorted : v[sorted[k]] >= v[i]})
       IN  SubSeq(sorted, 1, keep) \o <<i>> \o SubSeq(sorted, keep + 1, Len(sorted))

\* generate_reference_stats: the distinct samples in ascending order, their
\* counts, and both in the order arg_sort gives
generate_reference_stats(samples) ==
  LET categories == Ascending(Range(samples))
      counts == [indx \in 0 .. (Len(categories) - 1) |->
                   CountOf(samples, categories[indx + 1])]
      arg == arg_sort(counts, Len(categories))
  IN  [categories_stats |-> [k \in DOMAIN arg |-> categories[arg[k] + 1]],
       counts_stats |-> [k \in DOMAIN arg |-> counts[arg[k]]]]

\* Statistics::sort_categories_by_count: the ranking of the categories of
\* the samples with their counts
sort_categories_by_count(samples, num_categories) ==
  LET counts == [c \in 0 .. (num_categories - 1) |-> CountOf(samples, c)]
      sorted == CategoriesSorted(counts)
  IN  [categories_sorted |-> sorted,
       counts_sorted |-> [k \in DOMAIN sorted |-> counts[sorted[k]]],
       num_unique_categories |-> Len(sorted)]

GenerateReferenceStats ==
  /\ hybrid.reference = <<>>
  /\ hybrid' = [hybrid EXCEPT !.reference = generate_reference_stats(hybrid.samples)]
  /\ UNCHANGED <<coreVars, hostVars, sel, dev, freq, fill, shard>>

SortCategoriesByCount ==
  /\ hybrid.statistics = <<>>
  /\ hybrid' = [hybrid EXCEPT
                  !.statistics = sort_categories_by_count(hybrid.samples,
                                                          hybrid.num_categories)]
  /\ UNCHANGED <<coreVars, hostVars, sel, dev, freq, fill, shard>>

InitStats ==
  /\ CoreIdle
  /\ Unused({"reader", "profiler", "ops", "sel", "dev", "freq", "fill", "shard"})
  /\ \E batch_size \in 1 .. MaxStatBatch, num_tables \in 1 .. MaxTables :
       \E table_sizes \in [1 .. num_tables -> 1 .. MaxTableSize] :
         \E raw_data \in [1 .. (batch_size * num_tables) -> 0 .. (MaxTableSize - 1)] :
           /\ \A indx \in DOMAIN raw_data :
                raw_data[indx] < table_sizes[((indx - 1) % num_tables) + 1]
           /\ hybrid = [batch_size |-> batch_size, num_tables |-> num_tables,
                        num_categories |->
                          SumTo([j \in 0 .. (num_tables - 1) |-> table_sizes[j + 1]],
                                num_tables),
                        samples |-> SamplesOf(raw_data, table_sizes),
                        reference |-> <<>>, statistics |-> <<>>]

NextStats ==
  \/ GenerateReferenceStats
  \/ SortCategoriesByCount

SpecStats == InitStats /\ [][NextStats]_vars

(***************************************************************************)
(* DataReaderWorkerGroup: the loop flag, the worker threads running        *)
(* data_reader_thread_func_, and the calls of the owner of the group.      *)
(***************************************************************************)
Workers == {1, 2}
DeviceIdle == CoreIdle /\ Unused({"sel", "dev", "freq", "fill", "shard", "hybrid"})

\* mutant: the reading loop does not look at the flag
LoopFlagIgnored(p_loop_flag) == TRUE

\* while (*p_loop_flag)
LoopFlagSet(p_loop_flag) == p_loop_flag # 0

GroupAlive == reader.group = "alive"

\* create_data_reader_threads: one thread per data reader
CreateDataReaderThreads ==
  /\ GroupAlive
  /\ \A w \in Workers : reader.pc[w] = "no thread"
  /\ reader' = [reader EXCEPT !.pc = [w \in Workers |-> "wait"]]
  /\ UNCHANGED <<coreVars, sel, dev, freq, fill, shard, hybrid, profiler, ops>>

\* the first loop: the thread leaves it when it reads a flag that is not 0
WaitForFlag(w) ==
  /\ reader.pc[w] = "wait"
  /\ reader.data_reader_loop_flag_ # 0
  /\ reader' = [reader EXCEPT !.pc[w] = "check"]
  /\ UNCHANGED <<coreVars, sel, dev, freq, fill, shard, hybrid, profiler, ops>>

\* the condition of the second loop
CheckFlag(w) ==
  /\ reader.pc[w] = "check"
  /\ reader' = [reader EXCEPT
                  !.pc[w] = IF LoopFlagSet(reader.data_reader_loop_flag_)
                            THEN "call" ELSE "returned"]
  /\ UNCHANGED <<coreVars, sel, dev, freq, fill, shard, hybrid, profiler, ops>>

\* data_reader->read_a_batch() is called
CallReadABatch(w) ==
  /\ reader.pc[w] = "call"
  /\ reader' = [reader EXCEPT
                  !.pc[w] = "read",
                  !.read_unset = @ \/ ~reader.flag_was_set,
                  !.batches_after_end[w] =
                     IF reader.life = "ended" /\ @ < 2 THEN @ + 1 ELSE @]
  /\ UNCHANGED <<coreVars, sel, dev, freq, fill, shard, hybrid, profiler, ops>>

\* read_a_batch returns, or throws a runtime_error that ends the thread
ReadABatchEnds(w) ==
  /\ reader.pc[w] = "read"
  /\ \E thrown \in BOOLEAN :
       reader' = [reader EXCEPT !.pc[w] = IF thrown THEN "returned" ELSE "check"]
  /\ UNCHANGED <<coreVars, sel, dev, freq, fill, shard, hybrid, profiler, ops>>

\* start()
Start ==
  /\ GroupAlive
  /\ reader' = [reader EXCEPT
                  !.data_reader_loop_flag_ = 1,
                  !.flag_was_set = TRUE,
                  !.life = IF @ = "never started" THEN "started"
                           ELSE IF @ = "ended" THEN "started again" ELSE @,
                  !.batches_after_end = [w \in Workers |-> 0]]
  /\ UNCHANGED <<coreVars, sel, dev, freq, fill, shard, hybrid, profiler, ops>>

\* set_source(): the sources are set, and start() is called if the flag is 0
SetSource ==
  /\ GroupAlive
  /\ reader.data_reader_loop_flag_ = 0
  /\ reader' = [reader EXCEPT
                  !.data_reader_loop_flag_ = 1,
                  !.flag_was_set = TRUE,
                  !.life = IF @ = "never started" THEN "started" ELSE "started again",
                  !.batches_after_end = [w \in Workers |-> 0]]
  /\ UNCHANGED <<coreVars, sel, dev, freq, fill, shard, hybrid, profiler, ops>>

\* end(): the flag is cleared and every reader is told to skip its read
End ==
  /\ GroupAlive
  /\ reader' = [reader EXCEPT
                  !.data_reader_loop_flag_ = 0,
                  !.life = IF @ = "never started" THEN @ ELSE "ended",
                  !.batches_after_end = [w \in Workers |-> 0]]
  /\ UNCHANGED <<coreVars, sel, dev, freq, fill, shard, hybrid, profiler, ops>>

\* ~DataReaderWorkerGroup is entered
Destroy ==
  /\ GroupAlive
  /\ reader' = [reader EXCEPT !.group = "joining", !.destroyed_in = reader.life]
  /\ UNCHANGED <<coreVars, sel, dev, freq, fill, shard, hybrid, profiler, ops>>

\* data_reader_thread.join() returns for a thread whose function has returned
Join(w) ==
  /\ reader.group = "joining"
  /\ w \notin reader.joined
  /\ \A v \in Workers : v < w => v \in reader.joined
  /\ reader.pc[w] \in {"no thread", "returned"}
  /\ reader' = [reader EXCEPT
                  !.joined = @ \cup {w},
                  !.group = IF reader.joined \cup {w} = Workers THEN "destroyed" ELSE @]
  /\ UNCHANGED <<coreVars, sel, dev, freq, fill, shard, hybrid, profiler, ops>>

\* DataReaderWorkerGroup(start_reading_from_beginning)
InitReader ==
  /\ DeviceIdle
  /\ profiler = <<>>
  /\ ops = <<>>
  /\ \E start_reading_from_beginning \in BOOLEAN :
       reader = [data_reader_loop_flag_ |-> IF start_reading_from_beginning THEN 1 ELSE 0,
                 flag_was_set |-> start_reading_from_beginning,
                 life |-> IF start_reading_from_beginning THEN "started"
                          ELSE "never started",
                 pc |-> [w \in Workers |-> "no thread"],
                 group |-> "alive",
                 destroyed_in |-> "",
                 joined |-> {},
                 read_unset |-> FALSE,
                 batches_after_end |-> [w \in Workers |-> 0]]

WorkerStep(w) ==
  \/ WaitForFlag(w)
  \/ CheckFlag(w)
  \/ CallReadABatch(w)
  \/ ReadABatchEnds(w)

NextReader ==
  \/ CreateDataReaderThreads
  \/ \E w \in Workers : WorkerStep(w)
  \/ Start
  \/ SetSource
  \/ End
  \/ Destroy
  \/ \E w \in Workers : Join(w)

\* every thread that can take a step takes one, and a join of a thread that
\* has returned returns
SpecReader ==
  /\ InitReader
  /\ [][NextReader]_vars
  /\ \A w \in Workers : WF_vars(WorkerStep(w)) /\ WF_vars(Join(w))

(***************************************************************************)
(* Profiler: the schedule, the registered events, mtx_, and the threads    *)
(* that call record_event, iter_start and iter_end.  A string is the       *)
(* sequence of its characters; "start" and "stop" stand for one character  *)
(* each, so that a suffix is "start" exactly when it is <<"start">>.       *)
(***************************************************************************)
MaxLabelLen == 3
MaxScheduleLen == 1
MaxWarmup == 1
MaxEvents == 2
Threads == {1, 2}
ProfStreams == {1, 2}
Chars == {".", "a", "start", "stop"}
Labels == UNION {[1..n -> Chars] : n \in 1..MaxLabelLen}
EventNames == {<<"a">>, <<"a", "a">>}

\* event_label.find_last_of("."), stored in an int: -1 when there is no dot
find_last_of_dot(event_label) ==
  LET dots == {i \in 1..Len(event_label) : event_label[i] = "."}
  IN IF dots = {} THEN 0 - 1 ELSE (CHOOSE i \in dots : \A j \in dots : j <= i) - 1

\* event_label.substr(dot_pos + 1)
EventType(event_label) ==
  SubSeq(event_label, find_last_of_dot(event_label) + 2, Len(event_label))

\* event_label.substr(0, dot_pos): a count of -1 takes the whole string
EventName(event_label) ==
  IF find_last_of_dot(event_label) < 0 THEN event_label
  ELSE SubSeq(event_label, 1, find_last_of_dot(event_label))

\* if (event_type != "start" || event_type != "stop")
InvalidEventType(event_type) == event_type # <<"start">> \/ event_type # <<"stop">>

\* 0-based index of the first event of that name on the stream's id, or -1
find_event(p, event_name, stream) ==
  LET hits == {i \in 1..Len(p.events_) :
                 /\ p.events_[i].name = event_name
                 /\ p.events_[i].stream_id = p.map_stream_id_[stream]}
  IN IF hits = {} THEN 0 - 1 ELSE (CHOOSE i \in hits : \A j \in hits : i <= j) - 1

InSchedule(p, event_name) ==
  \E i \in 1..Len(p.scheduled_events_) : p.scheduled_events_[i][1] = event_name

Finished(p, t, event_name, event_type, outcome) ==
  [p EXCEPT !.last = [thread |-> t, name |-> event_name, type |-> event_type,
                      outcome |-> outcome,
                      warmup |-> p.current_iteration_ <= p.warmup_iterations_,
                      scheduled |-> InSchedule(p, event_name)]]

\* lines 102-143: the call during warmup.  `crash` chooses the outcome of
\* events_[-1] (a stop with no start registered): the process dies, or the
\* stray write goes unnoticed.
RecordWhileWarmup(p, t, event_name, event_type, stream, crash) ==
  IF p.mtx_ # 0
  THEN [p EXCEPT !.pc[t] = "blocked in mtx_.lock()"]
  ELSE IF ~InSchedule(p, event_name)
  THEN Finished([p EXCEPT !.mtx_ = t], t, event_name, event_type, "returned")
  ELSE
    LET new_timer == stream \notin p.map_stream_gpu_timer_
        timers == p.map_stream_gpu_timer_ \cup {stream}
        stream_id == IF new_timer THEN Cardinality(timers) ELSE p.map_stream_id_[stream]
        q == [p EXCEPT !.map_stream_gpu_timer_ = timers,
                       !.map_stream_id_[stream] = stream_id]
        gpu_event == [name |-> event_name, start_index |-> p.events_num_,
                      end_index |-> 0, stream_id |-> stream_id]
        idx == find_event(q, event_name, stream)
    IN IF event_type = <<"start">>
       THEN Finished([q EXCEPT !.events_ = Append(@, gpu_event),
                               !.events_num_ = @ + 1],
                     t, event_name, event_type, "returned")
       ELSE IF idx < 0
       THEN IF crash
            THEN [q EXCEPT !.mtx_ = t, !.crashed = TRUE]
            ELSE Finished([q EXCEPT !.events_num_ = @ + 1],
                          t, event_name, event_type, "returned")
       ELSE Finished([q EXCEPT !.events_[idx + 1].end_index = p.events_num_,
                               !.events_num_ = @ + 1],
                     t, event_name, event_type, "returned")

\* lines 144-162: the call after warmup.  `crash` chooses the outcome of
\* the call through the null gpu_timer of a stream that has no timer.
RecordTimed(p, t, event_name, event_type, stream, crash) ==
  LET scheduled == p.scheduled_events_[p.current_schedule_idx_ + 1]
      idx == find_event(p, event_name, stream)
  IN IF scheduled[1] # event_name \/ p.current_iteration_ # scheduled[2]
     THEN Finished(p, t, event_name, event_type, "returned")
     ELSE IF stream \notin p.map_stream_gpu_timer_ /\ crash
     THEN [p EXCEPT !.crashed = TRUE]
     ELSE IF event_type = <<"start">>
     THEN Finished(p, t, event_name, event_type, "returned")
     ELSE IF idx < 0
     THEN Finished(p, t, event_name, event_type, "thrown: not registered")
     ELSE IF p.mtx_ # 0
     THEN [p EXCEPT !.pc[t] = "blocked in mtx_.lock()"]
     ELSE Finished([p EXCEPT !.map_event_id_current_gpu_timer_ = @ \cup {idx}],
                   t, event_name, event_type, "returned")

\* lines 102-163
RecordEventBody(p, t, event_name, event_type, stream, crash) ==
  IF p.current_iteration_ <= p.warmup_iterations_
  THEN RecordWhileWarmup(p, t, event_name, event_type, stream, crash)
  ELSE RecordTimed(p, t, event_name, event_type, stream, crash)

ProfilerRuns == ~profiler.exited /\ ~profiler.crashed

\* record_event(event_label_char, stream), called by thread t
RecordEvent(t, event_label, stream) ==
  /\ ProfilerRuns
  /\ profiler.pc[t] = "idle"
  /\ profiler.events_num_ < MaxEvents
  /\ \E crash \in BOOLEAN :
       profiler' =
         [(IF InvalidEventType(EventType(event_label))
           THEN Finished(profiler, t, EventName(event_label), EventType(event_label),
                         "thrown: invalid event name")
           ELSE RecordEventBody(profiler, t, EventName(event_label),
                                EventType(event_label), stream, crash))
          EXCEPT !.label = event_label]
  /\ UNCHANGED <<coreVars, sel, dev, freq, fill, shard, hybrid, reader, ops>>

\* the statements of record_event from line 102 on, for a label whose type
\* is "start" or "stop"
RecordAcceptedEvent(t, event_name, event_type, stream) ==
  /\ ProfilerRuns
  /\ profiler.pc[t] = "idle"
  /\ profiler.events_num_ < MaxEvents
  /\ \E crash \in BOOLEAN :
       profiler' = [RecordEventBody(profiler, t, event_name, event_type, stream, crash)
                    EXCEPT !.label = event_name \o <<".">> \o event_type]
  /\ UNCHANGED <<coreVars, sel, dev, freq, fill, shard, hybrid, reader, ops>>

\* iter_start()
IterStart ==
  /\ ProfilerRuns
  /\ profiler' = [profiler EXCEPT !.map_event_id_current_gpu_timer_ = {}]
  /\ UNCHANGED <<coreVars, sel, dev, freq, fill, shard, hybrid, reader, ops>>

\* iter_end()
IterEnd ==
  /\ ProfilerRuns
  /\ LET idx == IF profiler.current_iteration_ > profiler.warmup_iterations_
                THEN profiler.current_schedule_idx_ + 1
                ELSE profiler.current_schedule_idx_
         done == idx >= Len(profiler.scheduled_events_)
     IN profiler' = [profiler EXCEPT
                       !.current_schedule_idx_ = idx,
                       !.exited = done,
                       !.current_iteration_ = IF done THEN @ ELSE @ + 1]
  /\ UNCHANGED <<coreVars, sel, dev, freq, fill, shard, hybrid, reader, ops>>

Schedules ==
  UNION {[1..n -> EventNames \X (1..(MaxWarmup + MaxScheduleLen))] : n \in 0..MaxScheduleLen}

\* initialize(schedule_file)
InitProfiler ==
  /\ DeviceIdle
  /\ reader = <<>>
  /\ ops = <<>>
  /\ \E schedule \in Schedules, warmup \in 0..MaxWarmup :
       profiler = [warmup_iterations_ |-> warmup,
                   scheduled_events_ |-> schedule,
                   current_iteration_ |-> 0,
                   current_schedule_idx_ |-> 0,
                   events_ |-> <<>>,
                   events_num_ |-> 0,
                   map_stream_gpu_timer_ |-> {},
                   map_stream_id_ |-> [st \in ProfStreams |-> 0],
                   map_event_id_current_gpu_timer_ |-> {},
                   mtx_ |-> 0,
                   pc |-> [t \in Threads |-> "idle"],
                   label |-> <<>>,
                   last |-> [thread |-> 0, name |-> <<>>, type |-> <<>>,
                             outcome |-> "no call", warmup |-> FALSE,
                             scheduled |-> FALSE],
                   exited |-> FALSE,
                   crashed |-> FALSE]

NextProfiler ==
  \/ \E t \in Threads, event_label \in Labels, stream \in ProfStreams :
       RecordEvent(t, event_label, stream)
  \/ IterStart
  \/ IterEnd

SpecProfiler == InitProfiler /\ [][NextProfiler]_vars

NextProfilerBody ==
  \/ \E t \in Threads, event_name \in EventNames,
         event_type \in {<<"start">>, <<"stop">>}, stream \in ProfStreams :
       RecordAcceptedEvent(t, event_name, event_type, stream)
  \/ IterStart
  \/ IterEnd

SpecProfilerBody == InitProfiler /\ [][NextProfilerBody]_vars

(***************************************************************************)
(* Operation: the chain through next_op_, and the registry of operation    *)
(* names.  A name is the sequence of its characters.                       *)
(***************************************************************************)
MaxOps == 4
MaxNames == 4
MaxNameLen == 3
MaxAppends == 3
OpIds == 1..MaxOps
NameChars == {"s", "_", "9"}
RequestedNames == UNION {[1..n -> NameChars] : n \in 1..MaxNameLen}
Digits == <<"0", "1", "2", "3", "4", "5", "6", "7", "8", "9">>
IsDigit(ch) == \E i \in 1..10 : Digits[i] = ch
DigitValue(ch) == (CHOOSE i \in 1..10 : Digits[i] = ch) - 1

\* str_split(str, "_"): the pieces between the underscores
RECURSIVE str_split(_)
str_split(str) ==
  LET at == {i \in 1..Len(str) : str[i] = "_"}
      first == CHOOSE i \in at : \A j \in at : i <= j
  IN IF at = {} THEN <<str>>
     ELSE <<SubSeq(str, 1, first - 1)>> \o str_split(SubSeq(str, first + 1, Len(str)))

\* strs_concat(name_vec, "_")
RECURSIVE strs_concat(_)
strs_concat(name_vec) ==
  IF Len(name_vec) = 1 THEN name_vec[1]
  ELSE name_vec[1] \o <<"_">> \o strs_concat(Tail(name_vec))

RECURSIVE DecimalValue(_)
DecimalValue(str) ==
  IF str = <<>> THEN 0
  ELSE 10 * DecimalValue(SubSeq(str, 1, Len(str) - 1)) + DigitValue(str[Len(str)])

\* mutant: no piece is taken as a number
string2numNever(str) == 0 - 1

\* string2num(str): the number a piece of digits writes, -1 for any other
string2num(str) ==
  IF str # <<>> /\ \A i \in 1..Len(str) : IsDigit(str[i])
  THEN DecimalValue(str) ELSE 0 - 1

\* std::to_string(num), num >= 0
RECURSIVE to_string(_)
to_string(num) ==
  IF num < 10 THEN <<Digits[num + 1]>>
  ELSE to_string(num \div 10) \o <<Digits[(num % 10) + 1]>>

\* one turn of the loop for a name that is taken
NextUniqueOpName(op_name, unique_op_name) ==
  LET name_vec == str_split(unique_op_name)
      num == string2num(name_vec[Len(name_vec)])
  IN IF num = 0 - 1 THEN op_name \o <<"_">> \o to_string(1)
     ELSE strs_concat([name_vec EXCEPT ![Len(name_vec)] = to_string(num + 1)])

NeverReturns == <<"the loop does not end">>

\* while (true): `turns` bounds the turns by the size of the registry
RECURSIVE UniqueOpNameLoop(_, _, _, _)
UniqueOpNameLoop(op_name, unique_op_name, operation_names, turns) ==
  IF unique_op_name \notin operation_names THEN unique_op_name
  ELSE IF turns = 0 THEN NeverReturns
  ELSE UniqueOpNameLoop(op_name, NextUniqueOpName(op_name, unique_op_name),
                        operation_names, turns - 1)

\* gen_unique_op_name(op_name): the name returned; the caller's registry
\* gains it
gen_unique_op_name(op_name, operation_names) ==
  UniqueOpNameLoop(op_name, op_name, operation_names, Cardinality(operation_names) + 1)

sok_operation == <<"s", "_", "s">>

Named(o, op_name) ==
  LET unique_op_name == gen_unique_op_name(op_name, o.operation_names)
  IN IF unique_op_name = NeverReturns
     THEN [o EXCEPT !.hung = TRUE]
     ELSE [o EXCEPT !.operation_names = @ \cup {unique_op_name},
                    !.last = [requested |-> op_name, returned |-> unique_op_name,
                              was_taken |-> unique_op_name \in o.operation_names]]

OpsRun == ~ops.hung /\ ops.ran.returned

\* Operation(context)
Construct ==
  /\ OpsRun
  /\ ops.n < MaxOps
  /\ LET o == Named(ops, sok_operation)
     IN ops' = IF o.hung THEN o
               ELSE [o EXCEPT !.n = @ + 1, !.op_name_[ops.n + 1] = o.last.returned]
  /\ UNCHANGED <<coreVars, sel, dev, freq, fill, shard, hybrid, reader, profiler>>

\* set_op_name(op_name)
SetOpName(self, op_name) ==
  /\ OpsRun
  /\ self \in 1..ops.n
  /\ Cardinality(ops.operation_names) < MaxNames
  /\ LET o == Named(ops, op_name)
     IN ops' = IF o.hung THEN o ELSE [o EXCEPT !.op_name_[self] = o.last.returned]
  /\ UNCHANGED <<coreVars, sel, dev, freq, fill, shard, hybrid, reader, profiler>>

\* the operations reached from self through next_op_, self first; the walk
\* stops after `steps` links
RECURSIVE ChainFrom(_, _, _)
ChainFrom(next_op_, self, steps) ==
  IF self = 0 \/ steps = 0 THEN <<>>
  ELSE <<self>> \o ChainFrom(next_op_, next_op_[self], steps - 1)

\* the recursion through next_op_ comes back to an operation
Cyclic(next_op_, self) == Len(ChainFrom(next_op_, self, MaxOps + 1)) > MaxOps

Reverse(seq) == [i \in 1..Len(seq) |-> seq[Len(seq) + 1 - i]]

\* mutant: set_next replaces the link of the head
SetNextAtHead(next_op_, self, operation) == [next_op_ EXCEPT ![self] = operation]

\* set_next(operation) on self: the link of the last operation of the chain
SetNextLinks(next_op_, self, operation) ==
  LET chain == ChainFrom(next_op_, self, MaxOps)
  IN [next_op_ EXCEPT ![chain[Len(chain)]] = operation]

\* head->set_next(operation); operation 0 is the null pointer
SetNext(operation) ==
  /\ OpsRun
  /\ ops.n >= 1
  /\ operation \in 0..ops.n
  /\ Len(ops.appended) < MaxAppends
  /\ ops' = IF Cyclic(ops.next_op_, 1)
            THEN [ops EXCEPT !.ran = [kind |-> "set_next", order |-> <<>>,
                                      returned |-> FALSE]]
            ELSE [ops EXCEPT !.next_op_ = SetNextLinks(ops.next_op_, 1, operation),
                             !.appended = IF operation = 0 THEN @
                                          ELSE Append(@, operation),
                             !.ran = [kind |-> "none", order |-> <<>>,
                                      returned |-> TRUE]]
  /\ UNCHANGED <<coreVars, sel, dev, freq, fill, shard, hybrid, reader, profiler>>

\* head->Forward(replica_context, training): forward() of each operation,
\* then the call on next_op_; a cyclic chain recurses until the stack ends
Forward ==
  /\ OpsRun
  /\ ops.n >= 1
  /\ ops' = [ops EXCEPT !.ran =
               [kind |-> "forward",
                order |-> ChainFrom(ops.next_op_, 1, MaxOps + 1),
                returned |-> ~Cyclic(ops.next_op_, 1)]]
  /\ UNCHANGED <<coreVars, sel, dev, freq, fill, shard, hybrid, reader, profiler>>

\* head->Backward(replica_context): the call on next_op_ first, then
\* backward(); a cyclic chain recurses until the stack ends and calls none
Backward ==
  /\ OpsRun
  /\ ops.n >= 1
  /\ ops' = [ops EXCEPT !.ran =
               [kind |-> "backward",
                order |-> IF Cyclic(ops.next_op_, 1) THEN <<>>
                          ELSE Reverse(ChainFrom(ops.next_op_, 1, MaxOps)),
                returned |-> ~Cyclic(ops.next_op_, 1)]]
  /\ UNCHANGED <<coreVars, sel, dev, freq, fill, shard, hybrid, reader, profiler>>

\* no operation constructed, the registry empty
InitOps ==
  /\ DeviceIdle
  /\ reader = <<>>
  /\ profiler = <<>>
  /\ ops = [n |-> 0,
            op_name_ |-> [self \in OpIds |-> <<>>],
            operation_names |-> {},
            next_op_ |-> [self \in OpIds |-> 0],
            appended |-> <<>>,
            ran |-> [kind |-> "none", order |-> <<>>, returned |-> TRUE],
            last |-> [requested |-> <<>>, returned |-> <<>>, was_taken |-> FALSE],
            hung |-> FALSE]

NextNames ==
  \/ Construct
  \/ \E self \in OpIds, op_name \in RequestedNames : SetOpName(self, op_name)

SpecNames == InitOps /\ [][NextNames]_vars

NextChain ==
  \/ Construct
  \/ \E operation \in 0..MaxOps : SetNext(operation)
  \/ Forward
  \/ Backward

SpecChain == InitOps /\ [][NextChain]_vars

(***************************************************************************)
(* One step on one stream, call by call: the host makes the calls of       *)
(* partition_and_unique_by_table_id, CompactPartitionDataOperator,         *)
(* CompressReverseIdxRangeOperator and SelectValidReverseIdxOperator; the  *)
(* device runs the work of the stream in order.  A call is checked when    *)
(* its result goes through HCTR_LIB_THROW.                                 *)
(***************************************************************************)
AsyncCall(ph, o, chk) == [phase |-> ph, op |-> o, checked |-> chk, sync |-> FALSE]
SyncCall(ph) == [phase |-> ph, op |-> "sync", checked |-> TRUE, sync |-> TRUE]

PartitionByTableIdCalls ==
  <<AsyncCall("partition", "memset_table", TRUE),
    AsyncCall("partition", "memset_count", TRUE),
    AsyncCall("partition", "partition_and_unique_kernel", FALSE)>>

CompactPartitionDataCallsNoLastSync ==
  <<AsyncCall("compact", "memset_num_key", TRUE),
    AsyncCall("compact", "inclusive_sum", FALSE),
    SyncCall("compact"),
    AsyncCall("compact", "compact_keys_kernel", FALSE)>>

CompactPartitionDataCalls ==
  <<AsyncCall("compact", "memset_num_key", TRUE),
    AsyncCall("compact", "inclusive_sum", FALSE),
    SyncCall("compact"),
    AsyncCall("compact", "compact_keys_kernel", FALSE),
    SyncCall("compact")>>

CompressReverseIdxRangeCalls ==
  <<AsyncCall("compress", "compress_reverse_idx_range_kernel", FALSE)>>

SelectValidReverseIdxCalls == <<AsyncCall("select", "select_if", FALSE)>>

\* the calls of one step, in the order the host makes them
StepCalls ==
  PartitionByTableIdCalls \o CompactPartitionDataCalls \o
  CompressReverseIdxRangeCalls \o SelectValidReverseIdxCalls

\* the number of calls after which CompactPartitionDataOperator has returned
CompactReturned == Len(PartitionByTableIdCalls) + Len(CompactPartitionDataCalls)

HostRuns == ~dev.thrown /\ dev.pc \in 1 .. Len(StepCalls)

\* what the work does to the buffers when the device runs it
RunOnDevice(o) ==
  /\ d_num_key_per_partition' =
       IF o = "memset_count" THEN MemsetNumKey(num_partition)
       ELSE d_num_key_per_partition
  /\ num_key_per_table' =
       IF o = "memset_num_key" THEN [num_key_per_table EXCEPT ![0] = 0]
       ELSE IF o = "inclusive_sum"
            THEN [i \in 0 .. num_partition |->
                    IF i = 0 THEN num_key_per_table[0]
                    ELSE ScanNumKey(d_num_key_per_partition, num_partition)[i]]
            ELSE num_key_per_table
  /\ h_num_keys' =
       IF o = "compact_keys_kernel" THEN num_key_per_table[num_partition]
       ELSE h_num_keys

\* the host makes its next call and the call succeeds: work goes into the
\* stream, or, for cudaStreamSynchronize, the host has waited for the stream
\* to drain.  After a fault on the device every call returns the error.
HostCall ==
  /\ HostRuns
  /\ LET call == StepCalls[dev.pc]
     IN  IF dev.sticky
         THEN dev' = [dev EXCEPT !.thrown = call.checked,
                                 !.pc = IF call.checked THEN @ ELSE @ + 1]
         ELSE /\ call.sync => dev.queue = <<>>
              /\ dev' = [dev EXCEPT
                           !.pc = @ + 1,
                           !.queue = IF call.sync THEN @
                                     ELSE Append(@, [phase |-> call.phase, op |-> call.op,
                                                     left |-> IF call.op = "partition_and_unique_kernel"
                                                              THEN InsertsPerKernel ELSE 1]),
                           !.host_read = IF dev.pc = CompactReturned
                                         THEN h_num_keys ELSE @]
  /\ UNCHANGED <<coreVars, hostVars, sel, freq, fill, shard, hybrid>>

\* the device runs the work at the head of the stream; the partition kernel
\* makes one insertion at a time, each adding a key to some partition
DeviceStep ==
  /\ dev.queue # <<>>
  /\ ~dev.sticky
  /\ LET h == Head(dev.queue)
     IN  /\ dev' = [dev EXCEPT
                      !.queue = IF h.left = 1 THEN Tail(@)
                                ELSE <<[h EXCEPT !.left = @ - 1]>> \o Tail(@),
                      !.ran = Append(@, h.op),
                      !.after = IF dev.failed = "none" THEN @ ELSE @ \cup {h.phase}]
         /\ IF h.op = "partition_and_unique_kernel"
            THEN /\ \E p \in 0 .. (num_partition - 1) :
                      d_num_key_per_partition' =
                        [d_num_key_per_partition EXCEPT ![p] = @ + 1]
                 /\ UNCHANGED <<num_key_per_table, h_num_keys>>
            ELSE RunOnDevice(h.op)
  /\ UNCHANGED <<phase, inputVars, cfgVars, table, partitioned_keys, pd_feature_ids,
                 reverse_idx, work, threads, writes, compacted_keys, sparse_reverse_idx,
                 dpVars, range_on_lookup_ids, seedVars, capVars, sel, freq, fill,
                 shard, hybrid, hostVars>>

\* an asynchronous call fails at once, and nothing goes into the stream: the
\* call returns an error code, which is thrown if the call is checked and
\* dropped if it is not
HostCallFails ==
  /\ HostRuns
  /\ ~dev.sticky
  /\ dev.failed = "none"
  /\ ~StepCalls[dev.pc].sync
  /\ dev' = [dev EXCEPT !.thrown = StepCalls[dev.pc].checked,
                        !.pc = IF StepCalls[dev.pc].checked THEN @ ELSE @ + 1,
                        !.failed = StepCalls[dev.pc].phase]
  /\ UNCHANGED <<coreVars, hostVars, sel, freq, fill, shard, hybrid>>

\* the work at the head of the stream faults on the device: the device runs
\* nothing more, and every later call returns the error
DeviceFaults ==
  /\ dev.queue # <<>>
  /\ ~dev.sticky
  /\ dev.failed = "none"
  /\ dev' = [dev EXCEPT !.sticky = TRUE, !.failed = Head(dev.queue).phase,
                        !.queue = <<>>]
  /\ UNCHANGED <<coreVars, hostVars, sel, freq, fill, shard, hybrid>>

InitPhases ==
  /\ phase = "step"
  /\ keys = <<>>
  /\ feature_ids = <<>>
  /\ lookup_id_to_local_table_id = <<>>
  /\ num_partition \in {1, 2}
  /\ table_capacity = 0
  /\ max_num_key_per_partition = InsertsPerKernel
  /\ table = <<>>
  /\ \E g \in Garbage :
       /\ d_num_key_per_partition = [p \in 0 .. (num_partition - 1) |-> g]
       /\ num_key_per_table = [i \in 0 .. num_partition |-> g]
       /\ h_num_keys = g
  /\ partitioned_keys = <<>>
  /\ pd_feature_ids = <<>>
  /\ reverse_idx = <<>>
  /\ work = <<>>
  /\ threads = <<>>
  /\ writes = <<>>
  /\ compacted_keys = <<>>
  /\ sparse_reverse_idx = <<>>
  /\ NoDpInput
  /\ NoFrequentKeys
  /\ NoSizing
  /\ Unused({"reader", "profiler", "ops", "sel", "freq", "fill", "shard", "hybrid"})
  /\ dev = [pc |-> 1, thrown |-> FALSE, queue |-> <<>>, ran |-> <<>>, sticky |-> FALSE,
            failed |-> "none", after |-> {}, host_read |-> 0]

NextPhases ==
  \/ HostCall
  \/ DeviceStep

SpecPhases == InitPhases /\ [][NextPhases]_vars

NextFailures ==
  \/ HostCall
  \/ DeviceStep
  \/ HostCallFails
  \/ DeviceFaults

SpecFailures == InitPhases /\ [][NextFailures]_vars

Next ==
  \/ PartitionAndUniqueByTableId
  \/ \E t \in ThreadIds : Cas(t)
  \/ \E t \in ThreadIds : AtomicAdd(t)
  \/ \E t \in ThreadIds : WriteKey(t)
  \/ \E t \in ThreadIds : Publish(t)
  \/ \E t \in ThreadIds : ReadBack(t)
  \/ KernelDone
  \/ CompactPartitionData
  \/ CompressReverseIdxRange

Spec == Init /\ [][Next]_vars

(***************************************************************************)
(* Properties of the by-table-id pass.                                     *)
(***************************************************************************)
Occurrences == 1 .. Len(keys)
PairOf(i) == <<keys[i], feature_ids[i]>>
PartOf(i) ==
  TablePartitionerView(lookup_id_to_local_table_id, keys[i], feature_ids[i])
InputPairs == {PairOf(i) : i \in Occurrences}
PairsRoutedTo(p) == {PairOf(i) : i \in {j \in Occurrences : PartOf(j) = p}}
Partitions == 0 .. (num_partition - 1)
SlotsOf(p) ==
  {p * max_num_key_per_partition + k : k \in 0 .. (d_num_key_per_partition[p] - 1)}
SlabPair(s) == <<partitioned_keys[s], pd_feature_ids[s]>>
WorkPair(t) == <<work[t].key, work[t].feature_id>>

\* the occurrences of the data-parallel input: <<k, j>> is key j of the
\* k-th selected lookup
DpOccurrences ==
  {o \in (1 .. Len(lookup_ids)) \X (0 .. (MaxSample * MaxHot - 1)) :
     o[2] < bucket_range[lookup_ids[o[1]]][num_sample_per_lookup]}
DpPosition(o) == range_on_lookup_ids[o[1]] + o[2]
DpPairOf(o) == <<dp_keys[lookup_ids[o[1]]][o[2] + 1], lookup_ids[o[1]]>>
IsSlot(r) == r \in DOMAIN partitioned_keys

\* C1: when the data-parallel pass has finished, every key occurrence j of
\* the k-th selected lookup has had exactly one reverse-index entry written,
\* at range_on_lookup_ids[k] + j, and the entry is a slot that holds the
\* occurrence's key.
C1_EveryOccurrenceWrittenOnce ==
  (phase = "partitioned" /\ lookup_ids # <<>>) =>
    \A o \in DpOccurrences :
      /\ DpPosition(o) \in DOMAIN writes
      /\ writes[DpPosition(o)] = 1
      /\ IsSlot(reverse_idx[DpPosition(o)])
      /\ partitioned_keys[reverse_idx[DpPosition(o)]] = DpPairOf(o)[1]

\* C2: when a pass has finished, the pairs recovered through the reverse
\* index are the pairs of the input, both for the pass by table id and for
\* the data-parallel pass.
C2_RecoveredPairsAreInputPairs ==
  phase = "partitioned" =>
    /\ \A i \in Occurrences :
         /\ IsSlot(reverse_idx[i - 1])
         /\ SlabPair(reverse_idx[i - 1]) = PairOf(i)
    /\ \A o \in DpOccurrences :
         /\ DpPosition(o) \in DOMAIN reverse_idx
         /\ IsSlot(reverse_idx[DpPosition(o)])
         /\ SlabPair(reverse_idx[DpPosition(o)]) = DpPairOf(o)

\* C3: once a by-table-id pass has ended, two occurrences routed to the same
\* partition have equal reverse-index values exactly when their
\* (key, feature_id) pairs are equal.
C3_SameSlotIffSamePair ==
  phase = "partitioned" =>
    \A i, j \in Occurrences :
      PartOf(i) = PartOf(j) =>
        ((reverse_idx[i - 1] = reverse_idx[j - 1]) <=> (PairOf(i) = PairOf(j)))

\* a finished pass with, in one partition, two occurrences of one pair and
\* an occurrence of another pair
C3_Witness ==
  /\ phase = "partitioned"
  /\ \E i, j, k \in Occurrences :
       /\ i # j /\ PairOf(i) = PairOf(j)
       /\ PairOf(k) # PairOf(i) /\ PartOf(k) = PartOf(i)
       /\ reverse_idx[i - 1] = reverse_idx[j - 1]
       /\ reverse_idx[k - 1] # reverse_idx[i - 1]

\* C4: in every interleaving of the find() calls of one pass, at most one call
\* per pair claims a slot, and every call that has returned has returned the
\* claiming call's slot as a 1-based index (never 0, never a value other than
\* the one the winner published), which the kernel stores 0-based; when the
\* pass has ended exactly one call per pair has claimed a slot.
C4_OneWinnerAllAgree ==
  /\ \A t1, t2 \in ThreadIds :
       (threads[t1].won /\ threads[t2].won /\ WorkPair(t1) = WorkPair(t2)) => t1 = t2
  /\ \A t \in ThreadIds :
       threads[t].pc = "done" =>
         /\ threads[t].ret >= 1
         /\ \E w \in ThreadIds :
              /\ threads[w].won
              /\ WorkPair(w) = WorkPair(t)
              /\ threads[t].ret = threads[w].slot + 1
              /\ table[threads[w].pos].r_idx_plus_one = threads[t].ret
              /\ phase \in {"partition", "partitioned"} =>
                   reverse_idx[work[t].out] = threads[w].slot
  /\ phase = "partitioned" =>
       \A t \in ThreadIds : \E w \in ThreadIds : threads[w].won /\ WorkPair(w) = WorkPair(t)

\* a finished pass in which three calls were made on one pair
C4_Witness ==
  /\ phase = "partitioned"
  /\ \E t1, t2, t3 \in ThreadIds :
       /\ t1 # t2 /\ t2 # t3 /\ t1 # t3
       /\ WorkPair(t1) = WorkPair(t2) /\ WorkPair(t2) = WorkPair(t3)
       /\ threads[t1].won /\ ~threads[t2].won /\ ~threads[t3].won
       /\ threads[t2].ret = threads[t1].ret /\ threads[t3].ret = threads[t1].ret

\* C5: once a pass has ended, the running count of every partition is the
\* number of distinct pairs routed to it, and the slots 0 .. count-1 of its
\* slab hold exactly those pairs, one pair per slot.
C5_CountsAndSlabs ==
  phase = "partitioned" =>
    \A p \in Partitions :
      /\ d_num_key_per_partition[p] = Cardinality(PairsRoutedTo(p))
      /\ {SlabPair(s) : s \in SlotsOf(p)} = PairsRoutedTo(p)

\* a finished pass with two partitions, both used, and a pair that occurred
\* twice
C5_Witness ==
  /\ phase = "partitioned"
  /\ num_partition = 2
  /\ d_num_key_per_partition[0] >= 1
  /\ d_num_key_per_partition[1] >= 1
  /\ Cardinality(InputPairs) < Len(keys)

\* the value the hash table held for a pair when the seeding kernel started
StoredAtLaunch(pair) ==
  {at_launch.table[pos].r_idx_plus_one :
     pos \in {q \in DOMAIN at_launch.table :
                /\ at_launch.table[q].marker = 1
                /\ at_launch.table[q].r_idx_plus_one # 0
                /\ <<at_launch.table[q].key, at_launch.table[q].feature_id>> = pair}}

SeedKernelRuns == phase = "partition" /\ seed_i >= 1

\* C6: insertion into a hash table that was not cleared is idempotent.  A
\* thread of a seeding kernel whose pair an earlier kernel inserted returns
\* the slot the earlier kernel returned for the pair, and a kernel all of
\* whose pairs were in the table when it started changes neither the table
\* nor the count nor the stored keys.
C6_InsertIsIdempotent ==
  SeedKernelRuns =>
    /\ \A t \in ThreadIds :
         threads[t].pc = "done" =>
           /\ \A r \in returned :
                <<r[1], r[2]>> = WorkPair(t) => threads[t].ret = r[3]
           /\ \A v \in StoredAtLaunch(WorkPair(t)) : threads[t].ret = v
    /\ (\A t \in ThreadIds : StoredAtLaunch(WorkPair(t)) # {}) =>
         /\ table = at_launch.table
         /\ d_num_key_per_partition = at_launch.count
         /\ partitioned_keys = at_launch.partitioned_keys
         /\ pd_feature_ids = at_launch.feature_ids

\* the second seeding kernel has gone through the keys of the first again
C6_Witness ==
  /\ SeedKernelRuns
  /\ seed_i = 2
  /\ seed_table_ids[1] = seed_table_ids[2]
  /\ seed_keys[1] = seed_keys[2]
  /\ Len(seed_keys[1]) = MaxSeedKeys
  /\ seed_keys[1][1] # seed_keys[1][2]
  /\ \A t \in ThreadIds : threads[t].pc = "done" /\ threads[t].ret # 0

\* more distinct pairs than the table, or than one partition's slab, can hold
Overflow ==
  \/ Cardinality(InputPairs) > table_capacity
  \/ \E p \in Partitions : Cardinality(PairsRoutedTo(p)) > max_num_key_per_partition

\* a device thread inside find() can take its next step
SomeThreadCanStep ==
  \E t \in ThreadIds :
    \/ threads[t].pc \in {"cas", "add", "write", "publish"}
    \/ threads[t].pc = "read" /\ table[threads[t].pos].r_idx_plus_one # 0

C8_CapacityCoversAnyPass ==
  phase \in {"dp input", "by table input"} => presented <= table_capacity

\* a pass is given as many occurrences as the table has entries, in a
\* collection where num_features_ is not the sum over all lookups
C8_Witness ==
  /\ phase = "by table input"
  /\ presented = table_capacity
  /\ presented > 0
  /\ gpu_count > 1
  /\ Len(ebc_param.grouped_lookup_params) = 1

(***************************************************************************)
(* Properties of compaction and of the reverse-index remap.                *)
(***************************************************************************)
LiveSlots == UNION {SlotsOf(p) : p \in Partitions}

\* C9: after CompactPartitionDataOperator the offsets are the exclusive prefix
\* sums of the per-partition counts, the reported number of keys is their sum,
\* and compacted_keys is the concatenation, in partition order, of the first
\* count[p] keys of each partition's slab.
C9_CompactIsDense ==
  phase \in {"compacted", "compressed"} =>
    /\ num_key_per_table[0] = 0
    /\ \A p \in Partitions :
         num_key_per_table[p + 1] = num_key_per_table[p] + d_num_key_per_partition[p]
    /\ h_num_keys = num_key_per_table[num_partition]
    /\ \A p \in Partitions :
         \A k \in 0 .. (d_num_key_per_partition[p] - 1) :
           compacted_keys[num_key_per_table[p] + k] =
             partitioned_keys[p * max_num_key_per_partition + k]

\* a compaction with an empty first partition before a partition of two keys
C9_Witness ==
  /\ phase = "compacted"
  /\ num_partition = 2
  /\ d_num_key_per_partition[0] = 0
  /\ d_num_key_per_partition[1] = 2
  /\ h_num_keys = 2
  /\ compacted_keys[0] # compacted_keys[1]

\* C10: after compaction and remap, every occurrence finds at its remapped
\* reverse index the key it found in the sparse slab, and the remap sends the
\* live slots one-to-one onto 0 .. total-1.
C10_RoundTrip ==
  phase = "compressed" =>
    /\ \A i \in Occurrences :
         sparse_reverse_idx[i - 1] \in LiveSlots =>
           /\ reverse_idx[i - 1] =
                CompressOne(sparse_reverse_idx[i - 1], d_num_key_per_partition,
                            max_num_key_per_partition)
           /\ compacted_keys[reverse_idx[i - 1]] =
                partitioned_keys[sparse_reverse_idx[i - 1]]
    /\ \A s1, s2 \in LiveSlots :
         CompressOne(s1, d_num_key_per_partition, max_num_key_per_partition) =
           CompressOne(s2, d_num_key_per_partition, max_num_key_per_partition)
           => s1 = s2
    /\ {CompressOne(s, d_num_key_per_partition, max_num_key_per_partition) :
          s \in LiveSlots} = 0 .. (h_num_keys - 1)

\* a remap that moves an occurrence: the first partition is not full and the
\* second partition is used
C10_Witness ==
  /\ phase = "compressed"
  /\ num_partition = 2
  /\ d_num_key_per_partition[0] = 1
  /\ d_num_key_per_partition[1] >= 1
  /\ \E i \in Occurrences :
       /\ sparse_reverse_idx[i - 1] \in SlotsOf(1)
       /\ reverse_idx[i - 1] # sparse_reverse_idx[i - 1]


(***************************************************************************)
(* Properties of the selection of the valid reverse-index entries.         *)
(***************************************************************************)
\* the entries of the input that are not kInvalidReverseIdx, in their order
ValidInput ==
  SelectSeq([j \in 1 .. sel.num_items |-> sel.d_in[j - 1]],
            LAMBDA idx : idx # kInvalidReverseIdx)

LogPositions(n, o) == {i \in 1 .. Len(dev.log) : dev.log[i] = <<n, o>>}

Clears(n) == LogPositions(n, "memset_table") \cup LogPositions(n, "memset_count")

\* step n cleared the table and the counts before it inserted anything, and
\* only after the step before it had made all its insertions
ClearedBetween(n) ==
  /\ \A i \in LogPositions(n, "kernel") :
       /\ Cardinality(Clears(n)) = 2
       /\ \A c \in Clears(n) : c < i
  /\ n > 1 =>
       \A c \in Clears(n) :
         /\ Cardinality(LogPositions(n - 1, "kernel")) = InsertsPerKernel
         /\ \A i \in LogPositions(n - 1, "kernel") : i < c

\* C12 as stated: the clearing of a step comes after every insertion of the
\* step before it and before every insertion of the step itself, whatever
\* streams the two steps were issued on.
C12_ClearedBetweenStepsAnyStream ==
  dev # <<>> => \A n \in Steps : ClearedBetween(n)

\* the order holds for two steps issued on the same stream
ClearedBetweenStepsSameStream ==
  (dev # <<>> /\ dev.stream[1] = dev.stream[2]) => \A n \in Steps : ClearedBetween(n)


(***************************************************************************)
(* Properties of the seeded keys.                                          *)
(***************************************************************************)
\* the pairs whose insertion into table tbl is complete
PairsIn(tbl) ==
  {<<tbl[pos].key, tbl[pos].feature_id>> :
     pos \in {q \in DOMAIN tbl : tbl[q].marker = 1 /\ tbl[q].r_idx_plus_one # 0}}

SeededPairs ==
  UNION {{<<seed_keys[i][j], seed_table_ids[i]>> : j \in DOMAIN seed_keys[i]} :
         i \in DOMAIN seed_keys}

\* when the seeding has ended, the table that was seeded holds the pairs
SeedingSeeds ==
  (phase = "seeding" /\ seed_i = Len(seed_table_ids)) =>
    SeededPairs \subseteq PairsIn(table)

\* C13: once a partition pass after the seeding is launched, the seeded
\* pairs are still in the table that was seeded, and a FrequentDense or
\* InfrequentDense pass is given a table that holds every seeded pair.
C13_SeededKeysStay ==
  (freq # <<>> /\ freq.pass # "none") =>
    /\ SeededPairs \subseteq PairsIn(table)
    /\ freq.pass \in {"FrequentDense", "InfrequentDense"} =>
         SeededPairs \subseteq PairsIn(freq.consulted)


(***************************************************************************)
(* Properties of the phases of a step.                                     *)
(***************************************************************************)
RanAt(o) == {i \in 1 .. Len(dev.ran) : dev.ran[i] = o}

\* C14: the gather kernel runs only after the prefix sum over the counts,
\* which runs after every insertion of the partition kernel; and when
\* CompactPartitionDataOperator has returned, the gather kernel has run and
\* the count the host reads is the sum of the per-partition counts the
\* partition kernel of the step left.
C14_PhaseOutputsReadAfterWritten ==
  (dev # <<>> /\ phase = "step") =>
    /\ \A g \in RanAt("compact_keys_kernel") :
         /\ \E c \in RanAt("inclusive_sum") : c < g
         /\ Cardinality(RanAt("partition_and_unique_kernel")) = InsertsPerKernel
         /\ \A k \in RanAt("partition_and_unique_kernel") :
              \A c \in RanAt("inclusive_sum") : k < c
    /\ (~dev.thrown /\ dev.pc > CompactReturned) =>
         /\ RanAt("compact_keys_kernel") # {}
         /\ dev.host_read = h_num_keys
         /\ dev.host_read = SumTo(d_num_key_per_partition, num_partition)
         /\ dev.host_read = InsertsPerKernel

\* the operator has returned in a step whose keys went to two partitions
C14_Witness ==
  /\ dev # <<>> /\ phase = "step"
  /\ dev.pc = CompactReturned + 1
  /\ num_partition = 2
  /\ d_num_key_per_partition[0] >= 1
  /\ d_num_key_per_partition[1] >= 1
  /\ dev.host_read = InsertsPerKernel

PhaseNo(ph) ==
  CASE ph = "partition" -> 1 [] ph = "compact" -> 2 [] ph = "compress" -> 3
    [] ph = "select" -> 4

\* C15: once a phase of the step has failed, the device runs no work of a
\* later phase of the step, and the step does not return to its caller as
\* if it had completed: the failure is thrown.
C15_FailedStepAborts ==
  (dev # <<>> /\ phase = "step" /\ dev.failed # "none") =>
    /\ \A ph \in dev.after : PhaseNo(ph) <= PhaseNo(dev.failed)
    /\ dev.pc = Len(StepCalls) + 1 => dev.thrown


(***************************************************************************)
(* Zero-length inputs.                                                     *)
(***************************************************************************)
\* the step of the data-parallel path has no key: no lookup is selected, or
\* every selected lookup has an empty bucket range
ZeroLengthInput ==
  \A k \in DOMAIN lookup_ids : bucket_range[lookup_ids[k]][num_sample_per_lookup] = 0

ZeroKeysWitness ==
  /\ fill # <<>>
  /\ Len(lookup_ids) = 2
  /\ ZeroLengthInput
  /\ phase = "compressed"
  /\ fill.pc = "done"

\* the pass by table id with no key leaves every count at 0
ZeroKeysByTableId ==
  (fill = <<>> /\ dev = <<>> /\ keys = <<>> /\ lookup_ids = <<>>
     /\ phase \in {"partition", "partitioned", "compacted", "compressed"}) =>
    /\ \A p \in DOMAIN d_num_key_per_partition : d_num_key_per_partition[p] = 0
    /\ phase \in {"compacted", "compressed"} => h_num_keys = 0


(***************************************************************************)
(* The shard matrix and the GPU topology.                                  *)
(***************************************************************************)
\* the matrix has a row for every GPU, every row has a column for every
\* lookup id of lookup_ids, and every lookup id is one of the collection
ConsistentShardMatrix ==
  /\ Len(shard.shard_matrix) >= shard.num_global_gpu_count
  /\ \A k \in DOMAIN shard.lookup_ids :
       /\ shard.lookup_ids[k] < shard.num_lookup
       /\ \A g \in 0 .. (shard.num_global_gpu_count - 1) :
            InMatrix(shard.shard_matrix, g, shard.lookup_ids[k])

\* C17: from a shard matrix that is inconsistent with the GPU topology no
\* partitioner is built, and nothing is read or written out of bounds.
C17_InconsistentMatrixRejected ==
  (shard # <<>> /\ ~ConsistentShardMatrix) =>
    /\ shard.pc # "built"
    /\ ~shard.read_outside
    /\ ~shard.written_outside

\* a consistent matrix is read and written within bounds
ConsistentMatrixInBounds ==
  (shard # <<>> /\ ConsistentShardMatrix) =>
    /\ ~shard.read_outside
    /\ ~shard.written_outside
    /\ shard.pc # "ended"


(***************************************************************************)
(* The placement of the categories.                                        *)
(***************************************************************************)
Placed == hybrid # <<>> /\ hybrid.pc = "model"
Categories == 0 .. (hybrid.num_categories - 1)
IsFrequent(c) == hybrid.model.category_frequent_index[c] # hybrid.num_categories
IsInfrequent(c) == hybrid.model.category_location[c] # <<>>
NumUnique == Len(hybrid.categories_sorted)

SlotsAndCounts ==
  /\ \A c \in Categories :
       IsFrequent(c) => hybrid.model.category_frequent_index[c] < hybrid.model.num_frequent
  /\ \A c, d \in Categories :
       (IsFrequent(c) /\ IsFrequent(d) /\ c # d) =>
         hybrid.model.category_frequent_index[c] # hybrid.model.category_frequent_index[d]
  /\ \A c, d \in Categories :
       (IsFrequent(c) /\ IsInfrequent(d)) => hybrid.counts[c] >= hybrid.counts[d]

\* the frequent set is the first num_frequent entries of categories_sorted
FrequentIsTopOfRanking ==
  /\ hybrid.model.num_frequent <= NumUnique
  /\ {c \in Categories : IsFrequent(c)} =
       {hybrid.categories_sorted[k] : k \in 1 .. hybrid.model.num_frequent}

C25_OffsetTableReadInBounds ==
  (phase = "compressed" /\ fill = <<>> /\ dev = <<>>) =>
    \A i \in 0 .. (Len(keys) - 1) :
      /\ sparse_reverse_idx[i] \div max_num_key_per_partition < num_partition
      /\ sparse_reverse_idx[i] = kInvalidReverseIdx => reverse_idx[i] >= h_num_keys

\* the entries that hold the slot of a key are read within the offset table
\* and rewritten to the index of a compacted key
ValidEntriesCompressed ==
  (phase = "compressed" /\ fill = <<>> /\ dev = <<>>) =>
    \A i \in 0 .. (Len(keys) - 1) :
      sparse_reverse_idx[i] # kInvalidReverseIdx =>
        /\ sparse_reverse_idx[i] \div max_num_key_per_partition < num_partition
        /\ reverse_idx[i] < h_num_keys


(***************************************************************************)
(* The segments of gpu_ids.                                                *)
(***************************************************************************)
\* gpu_ids[num_shard_range[l] .. num_shard_range[l + 1] - 1]
ShardSegment(l) ==
  [k \in 1 .. (shard.num_shard_range[l + 1] - shard.num_shard_range[l]) |->
     IF shard.num_shard_range[l] + k \in DOMAIN shard.gpu_ids
     THEN shard.gpu_ids[shard.num_shard_range[l] + k] ELSE -1]

\* the GPU ids that hold a shard of lookup l, in ascending order
ShardsOf(l) ==
  IF l \in Range(shard.lookup_ids)
  THEN Ascending({g \in 0 .. (shard.num_global_gpu_count - 1) :
                   shard.shard_matrix[g + 1][l + 1] # 0})
  ELSE <<>>

SegmentsAreShards == \A l \in 0 .. (shard.num_lookup - 1) : ShardSegment(l) = ShardsOf(l)

ShardPartitionerIsBuilt ==
  shard # <<>> /\ shard.pc = "built" /\ ConsistentShardMatrix

\* C26: after the construction the segment of every lookup id of lookup_ids,
\* in whatever order they are listed, is the ascending list of the GPU ids
\* with a non-zero entry in the shard matrix, and the segment of every other
\* lookup id is empty.
C26_SegmentsAnyOrder == ShardPartitionerIsBuilt => SegmentsAreShards

\* the same for lookup_ids listed in ascending order
SegmentsForAscendingLookupIds ==
  (ShardPartitionerIsBuilt /\ shard.lookup_ids = Ascending(Range(shard.lookup_ids)))
    => SegmentsAreShards


(***************************************************************************)
(* The statistics against the host reference.                              *)
(***************************************************************************)
StatsCompared ==
  /\ hybrid # <<>>
  /\ "statistics" \in DOMAIN hybrid
  /\ hybrid.statistics # <<>>
  /\ hybrid.reference # <<>>

\* C21: sort_categories_by_count gives the categories, the counts and the
\* number of unique categories of the host reference; the counts do not
\* increase, the categories are the distinct samples, and the counts sum to
\* batch_size * num_tables.
C21_StatisticsMatchReference ==
  StatsCompared =>
    LET st == hybrid.statistics IN
      /\ st.categories_sorted = hybrid.reference.categories_stats
      /\ st.counts_sorted = hybrid.reference.counts_stats
      /\ st.num_unique_categories = Len(hybrid.reference.categories_stats)
      /\ \A k \in 1 .. (Len(st.counts_sorted) - 1) :
           st.counts_sorted[k] >= st.counts_sorted[k + 1]
      /\ Range(st.categories_sorted) = Range(hybrid.samples)
      /\ Len(st.categories_sorted) = Cardinality(Range(hybrid.samples))
      /\ SumTo([j \in 0 .. (Len(st.counts_sorted) - 1) |-> st.counts_sorted[j + 1]],
               Len(st.counts_sorted)) = hybrid.batch_size * hybrid.num_tables

\* a batch with two categories of the same count behind a more frequent one
C21_Witness ==
  /\ StatsCompared
  /\ Len(hybrid.statistics.counts_sorted) = 3
  /\ hybrid.statistics.counts_sorted[1] > hybrid.statistics.counts_sorted[2]
  /\ hybrid.statistics.counts_sorted[2] = hybrid.statistics.counts_sorted[3]


(***************************************************************************)
(* The interpolated communication times.                                   *)
(***************************************************************************)
Interpolated ==
  /\ hybrid # <<>>
  /\ "communication_time" \in DOMAIN hybrid
  /\ hybrid.communication_time # <<>>

\* the calibration that was interpolated
CalibratedSizes ==
  IF hybrid.h_all_to_all_data_size # <<>> THEN hybrid.h_all_to_all_data_size
  ELSE hybrid.h_all_reduce_data_size
CalibratedTimes ==
  IF hybrid.h_all_to_all_times # <<>> THEN hybrid.h_all_to_all_times
  ELSE hybrid.h_all_reduce_times

\* the time num / den is the point at data_size of the line through samples
\* i and i + 1, and lies between their times, strictly when they differ
BetweenSamples(i) ==
  LET x0 == CalibratedSizes[i]
      x1 == CalibratedSizes[i + 1]
      t0 == CalibratedTimes[i]
      t1 == CalibratedTimes[i + 1]
      num == hybrid.communication_time[1]
      den == hybrid.communication_time[2]
      lo == IF t0 < t1 THEN t0 ELSE t1
      hi == IF t0 < t1 THEN t1 ELSE t0
  IN  /\ (num - t0 * den) * (x1 - x0) = (t1 - t0) * (hybrid.data_size - x0) * den
      /\ lo * den <= num
      /\ num <= hi * den
      /\ t0 # t1 => (lo * den < num /\ num < hi * den)

C23_DestructorReturns ==
  (reader # <<>> /\ reader.group = "joining") ~>
     (reader.group = "destroyed" /\ \A w \in Workers : reader.pc[w] \in {"no thread", "returned"})

\* the destructor returns when the group was ended and every thread had
\* read the flag while it was set
DestructorReturnsAfterEnd ==
  (reader # <<>> /\ reader.group = "joining" /\ reader.data_reader_loop_flag_ = 0
     /\ \A w \in Workers : reader.pc[w] \notin {"wait"})
    ~> (reader.group = "destroyed")

NotReading(w) == reader.pc[w] \in {"no thread", "wait", "returned"}

\* C30: no worker calls read_a_batch before the loop flag was first set;
\* after end() a worker starts at most one more batch; and after end() with
\* no later start every worker eventually stops calling read_a_batch.
C30_ReadsFollowTheFlag ==
  /\ [](reader # <<>> => ~reader.read_unset)
  /\ [](reader # <<>> => \A w \in Workers : reader.batches_after_end[w] <= 1)
  /\ (reader # <<>> /\ reader.life = "ended")
       ~> (reader.life # "ended" \/ \A w \in Workers : NotReading(w))

\* after end() a worker has started one more batch and then left its loop
C30_Witness ==
  /\ reader # <<>>
  /\ reader.life = "ended"
  /\ \E w \in Workers : reader.batches_after_end[w] = 1 /\ reader.pc[w] = "returned"
  /\ \E w \in Workers : reader.batches_after_end[w] = 0 /\ reader.pc[w] = "returned"


(***************************************************************************)
(* Profiler::record_event.                                                 *)
(***************************************************************************)
Called == profiler # <<>> /\ profiler.last.outcome # "no call"

\* C24: record_event rejects a label with the invalid-event-name error
\* exactly when the text after the label's last dot is neither "start" nor
\* "stop"; a label that ends in .start or .stop is accepted.
C24_RejectedExactlyWhenSuffixInvalid ==
  Called =>
    (profiler.last.outcome = "thrown: invalid event name"
       <=> EventType(profiler.label) \notin {<<"start">>, <<"stop">>})

\* a label that ends in neither is rejected
InvalidSuffixRejected ==
  Called /\ EventType(profiler.label) \notin {<<"start">>, <<"stop">>}
    => profiler.last.outcome = "thrown: invalid event name"

MutexKeptOnlyWhenNotScheduled ==
  [][(profiler # <<>> /\ profiler.mtx_ = 0 /\ profiler'.mtx_ # 0 /\ ~profiler'.crashed)
       => /\ profiler'.last.outcome = "returned"
          /\ profiler'.last.warmup
          /\ ~profiler'.last.scheduled]_vars


(***************************************************************************)
(* Operation: names and chains.                                            *)
(***************************************************************************)
\* C28: gen_unique_op_name ends for every requested name and registry,
\* returns a name that was not in the registry and adds it; no two
\* operations hold the same op name.
C28_OpNamesUnique ==
  ops # <<>> =>
    /\ ~ops.hung
    /\ ~ops.last.was_taken
    /\ ops.last.returned # <<>> => ops.last.returned \in ops.operation_names
    /\ \A a, b \in 1..ops.n : a # b => ops.op_name_[a] # ops.op_name_[b]
    /\ \A a \in 1..ops.n : ops.op_name_[a] \in ops.operation_names

\* a name ending in 9 was requested while taken and its successor was
\* returned; two operations are alive
C28_Witness ==
  /\ ops # <<>>
  /\ ops.n >= 2
  /\ ops.last.requested = <<"s", "_", "9">>
  /\ ops.last.returned = <<"s", "_", "1", "0">>

\* the chain from the head is the head followed by the operations handed to
\* set_next, in that order
InsertionOrder == ChainFrom(ops.next_op_, 1, MaxOps + 1) = <<1>> \o ops.appended

RanInChainOrder ==
  /\ ops.ran.returned
  /\ ops.ran.kind = "forward" => ops.ran.order = <<1>> \o ops.appended
  /\ ops.ran.kind = "backward" => ops.ran.order = Reverse(<<1>> \o ops.appended)

\* C27 as stated: after any sequence of set_next calls on the head the
\* chain keeps insertion order, and Forward and Backward run every
\* operation once, in chain order and in reverse chain order.
C27_ChainOrderAnyCalls ==
  ops # <<>> /\ ops.n >= 1 => InsertionOrder /\ RanInChainOrder

\* every operation handed to set_next was handed once and is not the head
AppendedOnce ==
  /\ \A i \in 1..Len(ops.appended) : ops.appended[i] # 1
  /\ \A i, j \in 1..Len(ops.appended) : i # j => ops.appended[i] # ops.appended[j]

\* C27 for set_next calls that hand over each operation once and never the
\* head: the chain keeps insertion order, Forward runs forward() once on
\* each operation from head to tail, Backward from tail to head.
C27_ChainOrderDistinctOperations ==
  ops # <<>> /\ ops.n >= 1 /\ AppendedOnce => InsertionOrder /\ RanInChainOrder

\* two operations appended, and Backward has run on the chain of three
C27_Witness ==
  /\ ops # <<>>
  /\ ops.appended = <<3, 2>>
  /\ ops.ran.kind = "backward"
  /\ ops.ran.order = <<2, 3, 1>>

=============================================================================
